---- MODULE Spec2Model ----
(***************************************************************************)
(* Model of the Monte Carlo add-in: the simulation orchestrator            *)
(* (engine/simulator.ts), the module-level state it shares with the custom *)
(* functions (shared/storage.ts, engine/distributions.ts), the task pane   *)
(* hook that starts and cancels runs (taskpane/hooks/useSimulation.ts) and *)
(* the statistics helpers (engine/statistics.ts).                          *)
(*                                                                         *)
(* JavaScript runs one task at a time: the code between two awaits is one  *)
(* atomic action.  A run is suspended only at ctx.sync(); each action      *)
(* below is one click, one evaluation of a custom function, or the         *)
(* completion (or failure) of one ctx.sync() together with everything the  *)
(* run does up to its next await.                                          *)
(***************************************************************************)
EXTENDS Integers, Sequences, FiniteSets, TLC

VARIABLES
    config,         \* useSimulation: the config state
    isRunning,      \* useSimulation: the isRunning state (gates Run / Stop)
    results,        \* useSimulation: run whose results are shown (0: null)
    hookError,      \* useSimulation: the error state ("none": null)
    cancelled,      \* simulator.ts: _cancelled
    simulating,     \* storage.ts: _simulating
    currentIteration, \* storage.ts: _currentIteration
    rng,            \* distributions.ts: _s, useSeededRng, _hasSpare, _spare
    regInputs,      \* storage.ts: _inputs (a Map, in insertion order)
    regOutputs,     \* storage.ts: _outputs
    cells,          \* the workbook: content of each input cell
    runs,           \* the runSimulation calls made so far, in call order
    evals,          \* MC function evaluations that drew a sample so far
    hist,           \* statistics.ts: arguments and result of computeHistogram
    stat,           \* one call of another pure helper: arguments and result
    sheet           \* the workbook: the MC function each cell holds

vars == <<config, isRunning, results, hookError, cancelled, simulating,
          currentIteration, rng, regInputs, regOutputs, cells, runs, evals,
          hist, stat, sheet>>

(***************************************************************************)
(* Bounds of the model.                                                    *)
(***************************************************************************)
\* runSimulation calls explored
MaxRuns == 2
\* largest config.iterations explored
MaxIter == 2
\* MC function evaluations that draw a sample (made while simulating)
MaxEvals == 1
\* a uniform draw u in [0,1) is modelled by floor(u * Res)
Res == 3
\* longest values array handed to the statistics helpers
MaxLen == 3
\* the values of such an array are 0..MaxVal
MaxVal == 3
\* largest numBins argument of computeHistogram
MaxBinsHint == 3
\* largest numPoints argument of computeCDF (at most 64, see RoundDbl)
MaxPoints == 50
\* a fraction p in [0,1] is num / den with den in 1..MaxDen
MaxDen == 4

(***************************************************************************)
(* Program constants.                                                      *)
(***************************************************************************)
DEFAULT_ITERATIONS == 1000
DEFAULT_SEED == 0
MIN_ITERATIONS == 100
MAX_ITERATIONS == 50000

Max(a, b) == IF a >= b THEN a ELSE b
Min(a, b) == IF a <= b THEN a ELSE b

(***************************************************************************)
(* The workbook.  One cell holds an MC distribution function, one cell     *)
(* holds an MC.OUTPUT; a second input entry is one that restoreFromStorage *)
(* read back from localStorage with a type tag this build does not know.   *)
(***************************************************************************)
InputCells ==
    << [address |-> "A2", type |-> "normal", name |-> "cost"] >>

OutputCells ==
    << [address |-> "B1", name |-> "npv"] >>

StoredInput ==
    [id |-> [type |-> "beta", key |-> "legacy"], cellAddress |-> "A3",
     type |-> "beta", name |-> "legacy"]

CellAddrs == {"A2", "A3"}

\* What a cell of the workbook holds: nothing the add-in knows, an MC
\* distribution function or an MC.OUTPUT, with its name argument
NoFunction == [kind |-> "none", type |-> "", name |-> ""]
DistFunction(type, name) == [kind |-> "dist", type |-> type, name |-> name]
OutputFunction(name) == [kind |-> "output", type |-> "output", name |-> name]

SheetCells == {"A2", "A3", "B1"}
EmptySheet == [a \in SheetCells |-> NoFunction]

\* The workbook with InputCells and OutputCells in it
BaseSheet ==
    [a \in SheetCells |->
        IF \E i \in 1..Len(InputCells) : InputCells[i].address = a
        THEN LET i == CHOOSE i \in 1..Len(InputCells) : InputCells[i].address = a
             IN  DistFunction(InputCells[i].type, InputCells[i].name)
        ELSE IF \E i \in 1..Len(OutputCells) : OutputCells[i].address = a
        THEN LET i == CHOOSE i \in 1..Len(OutputCells) : OutputCells[i].address = a
             IN  OutputFunction(OutputCells[i].name)
        ELSE NoFunction]

\* config.seed and config.iterations as the settings fields can leave them
Seeds == {0, 1}
IterationChoices == {0, MaxIter}

\* A cell content or a sample: one record shape for all of them.
Formula == [k |-> "formula", a |-> 0, b |-> 0]
NoSample == [k |-> "none", a |-> 0, b |-> 0]

(***************************************************************************)
(* storage.ts: the registry.                                               *)
(***************************************************************************)
\* Map.set: an existing key keeps its place, a new key goes last.
MapSet(m, e) ==
    IF \E i \in 1..Len(m) : m[i].id = e.id
    THEN [i \in 1..Len(m) |-> IF m[i].id = e.id THEN e ELSE m[i]]
    ELSE Append(m, e)

\* functions.ts stableId: the id is type:name, or type:address without a name
\* (every cell of the workbook above has a name or an address).
stableId(type, name, address) ==
    [type |-> type, key |-> IF name # "" THEN name ELSE address]

\* functions.ts registerDist -> storage.ts registerInput
registerDist(reg, cell) ==
    MapSet(reg, [id |-> stableId(cell.type, cell.name, cell.address),
                 cellAddress |-> cell.address, type |-> cell.type,
                 name |-> cell.name])

\* storage.ts removeInput, clearInputs, clearOutputs
removeInput(reg, id) == SelectSeq(reg, LAMBDA e : e.id # id)
clearInputs(reg) == <<>>
clearOutputs(reg) == <<>>

\* functions.ts mcSimId: what MC.SIMID returns whenever Excel evaluates it
mcSimId == 0

\* functions.ts mcOutput -> storage.ts registerOutput
registerOutput(reg, cell) ==
    MapSet(reg, [id |-> stableId("output", cell.name, cell.address),
                 cellAddress |-> cell.address, name |-> cell.name])

(***************************************************************************)
(* distributions.ts: the random source.                                    *)
(*                                                                         *)
(* seedRng(seed) sets all four words of _s from seed alone and xoshiro()   *)
(* steps them, so the generator state is (seed, number of draws since      *)
(* seedRng).  XoshiroOut16[seed][n] is the top 16 bits of the n-th output  *)
(* of xoshiro() after seedRng(seed), computed from the code's arithmetic.  *)
(***************************************************************************)
XoshiroOut16 ==
    << <<36958, 11372, 56976, 42149, 10457, 13538, 59626, 41572,
         42254, 8920, 20232, 37907, 39477, 16562, 11973, 38276,
         53330, 25124, 24736, 43125, 32522, 47018, 42651, 52179,
         48453, 64069, 25052, 1691, 36438, 7615, 48330, 44555>>,
       <<41855, 63280, 36216, 44474, 15964, 39634, 969, 30982,
         34595, 56344, 49457, 21748, 5345, 41467, 39547, 3470,
         37050, 27101, 20554, 45985, 49474, 5072, 14587, 19608,
         18346, 56235, 20764, 60174, 5031, 3470, 53912, 10894>> >>

Quant(x16) == (x16 * Res) \div 65536

RngInit ==
    [useSeededRng |-> FALSE, seed |-> 0, n |-> 0,
     hasSpare |-> FALSE, spare |-> NoSample]

seedRng(g, seed) == [g EXCEPT !.seed = seed, !.n = 0]

setUseSeededRng(g, flag) == [g EXCEPT !.useSeededRng = flag]

resetSamplerState(g) == [g EXCEPT !.hasSpare = FALSE, !.spare = NoSample]

\* runSimulation, "Setup PRNG"
SetupRng(g, seed) ==
    resetSamplerState(IF seed > 0
                      THEN setUseSeededRng(seedRng(g, seed), TRUE)
                      ELSE setUseSeededRng(g, FALSE))

\* A sampler threads this context: the generator, the Math.random results
\* still available to this action (amb), whether the model's bounds were
\* enough (ok), whether the sampler threw, the last uniform draw and the
\* sample produced.
SamplerCtx(g, amb) ==
    [rng |-> g, amb |-> amb, ok |-> TRUE, threw |-> FALSE,
     u |-> 0, val |-> NoSample]

\* rand(): xoshiro() in seeded mode, Math.random() otherwise
rand(c) ==
    IF ~c.ok THEN c
    ELSE IF c.rng.useSeededRng
    THEN IF c.rng.n < Len(XoshiroOut16[c.rng.seed])
         THEN [c EXCEPT !.u = Quant(XoshiroOut16[c.rng.seed][c.rng.n + 1]),
                        !.rng.n = @ + 1]
         ELSE [c EXCEPT !.ok = FALSE]
    ELSE IF c.amb # <<>>
         THEN [c EXCEPT !.u = Head(c.amb), !.amb = Tail(c.amb)]
         ELSE [c EXCEPT !.ok = FALSE]

\* The rejection loop of sampleStdNormal: u, v in [-1,1), accepted when
\* 0 < u*u + v*v < 1.  With u = (2 q - Res) / Res this is 0 < a*a + b*b < Res*Res.
\* The result u * mul with mul a function of s is kept as the pair (a, s),
\* the spare v * mul as (b, s).
RECURSIVE BoxMuller(_)
BoxMuller(c) ==
    LET c1 == rand(c)
        c2 == rand(c1)
        a == 2 * c1.u - Res
        b == 2 * c2.u - Res
        s == a * a + b * b
    IN  IF ~c2.ok THEN c2
        ELSE IF s >= Res * Res \/ s = 0 THEN BoxMuller(c2)
        ELSE [c2 EXCEPT !.val = [k |-> "normal", a |-> a, b |-> s],
                        !.rng.hasSpare = TRUE,
                        !.rng.spare = [k |-> "normal", a |-> b, b |-> s]]

sampleStdNormal(c) ==
    IF c.rng.hasSpare
    THEN [c EXCEPT !.rng.hasSpare = FALSE, !.val = c.rng.spare]
    ELSE BoxMuller(c)

\* sampleDistribution: min + u (max - min) and mean + stdev z are kept as
\* the draw they are computed from.
\* A dispatcher whose default branch samples instead of throwing
sampleDistributionLenient(type, c) ==
    IF type \in {"normal", "lognormal"} THEN sampleStdNormal(c)
    ELSE LET c1 == rand(c)
         IN  [c1 EXCEPT !.val = [k |-> "uniform", a |-> c1.u, b |-> 0]]

sampleDistribution(type, c) ==
    CASE type = "uniform" ->
            LET c1 == rand(c)
            IN  [c1 EXCEPT !.val = [k |-> "uniform", a |-> c1.u, b |-> 0]]
      [] type \in {"normal", "lognormal"} -> sampleStdNormal(c)
      [] OTHER -> [c EXCEPT !.threw = TRUE]

\* runSimulation, "Sample all inputs": the inner loop over j
RECURSIVE SampleRow(_, _, _, _)
SampleRow(inputs, j, c, row) ==
    IF j > Len(inputs) THEN [c |-> c, row |-> row]
    ELSE LET c1 == sampleDistribution(inputs[j].type, c)
         IN  IF c1.threw \/ ~c1.ok THEN [c |-> c1, row |-> row]
             ELSE SampleRow(inputs, j + 1, c1, Append(row, c1.val))

\* The results of Math.random one action may consume: the sequences explored
AmbientDraws == {<<1, 1>>, <<Res - 1, 1>>}

(***************************************************************************)
(* simulator.ts: one runSimulation call.                                   *)
(*                                                                         *)
(* pc is the await the call is suspended at (loadSync: line 366, iterSync: *)
(* line 399, restoreSync: line 432) or how it settled.  thrown is the       *)
(* exception in flight while the finally block runs.  The fields from      *)
(* nProgress on are history, read only by the properties: the number of    *)
(* progress updates emitted and whether the final one was; whether the     *)
(* formulas were saved; the round trips started; whether a sample was      *)
(* drawn and the random source at the first draw; whether the call set     *)
(* isSimulating; the iteration at which the loop saw the cancel flag (-1:  *)
(* never); whether Stop was clicked while the call was in its loop and the *)
(* rows sampled by then; whether a round trip failed; whether the restore  *)
(* was queued, succeeded and left the saved formulas in the cells; and     *)
(* whether another call or an MC function evaluation ran while this call   *)
(* was alive.  completed, in a progress update, is the number of           *)
(* iterations the call had completed when it emitted the update.           *)
(***************************************************************************)
NoProgress ==
    [status |-> "none", currentIteration |-> 0, totalIterations |-> 0,
     completed |-> 0]

NewRun(cfg, ins, outs) ==
    [pc |-> "loadSync", config |-> cfg, inputs |-> ins, outputs |-> outs,
     iter |-> 0, inputSamples |-> <<>>,
     outputValues |-> [k \in 1..Len(outs) |-> <<>>],
     originalFormulas |-> <<>>, thrown |-> "none", error |-> "none",
     progress |-> NoProgress,
     \* history
     nProgress |-> 0, finalEmitted |-> FALSE, saved |-> FALSE,
     syncs |-> 0, sampled |-> FALSE, firstRng |-> RngInit, setSim |-> FALSE,
     brokeAt |-> -1, cancelReq |-> FALSE, startedAtCancel |-> 0,
     syncFailed |-> FALSE, restoreAttempted |-> FALSE, restoreOk |-> FALSE,
     formulasBack |-> FALSE, overlapped |-> FALSE]

Terminal(pc) == pc \in {"resolved", "rejected"}

\* A runSimulation that checks the inputs only
PreconditionErrorInputsOnly(ins, outs, cfg) ==
    IF Len(ins) = 0 THEN "NoInputs" ELSE "none"

\* A runSimulation that also checks config.iterations against the limits
PreconditionErrorWithConfig(ins, outs, cfg) ==
    IF Len(ins) = 0 THEN "NoInputs"
    ELSE IF Len(outs) = 0 THEN "NoOutputs"
    ELSE IF cfg.iterations < MIN_ITERATIONS \/ cfg.iterations > MAX_ITERATIONS
    THEN "ConfigOutOfBounds"
    ELSE "none"

\* runSimulation lines 320-329: the two precondition checks (config is in
\* scope there and is not looked at)
PreconditionError(ins, outs, cfg) ==
    IF Len(ins) = 0 THEN "NoInputs"
    ELSE IF Len(outs) = 0 THEN "NoOutputs"
    ELSE "none"

\* the for condition and the cancel check at the top of the loop body
LoopContinues(iter, iterations, cnc) == iter < iterations /\ ~cnc

\* A restore placed after the loop instead of in a finally block
RestoreOnNormalExitOnly(thrown) == thrown = "none"

\* the try / finally around the loop: the restore runs however the loop ends
RestoreOnExit(thrown) == TRUE

\* A catch that logs the error and does not rethrow it
PropagatesNothing(err) == FALSE

\* the catch of runSimulation rethrows what Excel.run rejected with
Propagates(err) == err # "none"

\* A cadence without the update after the last iteration
ProgressDueEveryTenth(iter, iterations) == iter % 10 = 0

\* the cadence of the in-loop progress callback
ProgressDue(iter, iterations) == iter % 10 = 0 \/ iter = iterations - 1

InLoopProgress(iter, iterations, cnc) ==
    [status |-> IF cnc THEN "cancelled" ELSE "running",
     currentIteration |-> iter + 1, totalIterations |-> iterations,
     completed |-> iter + 1]

\* "Final progress"; completed is the number of iterations the run has done
FinalProgress(iterations, cnc, done) ==
    [status |-> IF cnc THEN "cancelled" ELSE "completed",
     currentIteration |-> IF cnc THEN 0 ELSE iterations,
     totalIterations |-> iterations, completed |-> done]

\* What runSimulation does once the restore sync has settled (or was
\* skipped): an error thrown in the finally block replaces the one in flight;
\* an error rejects the call, otherwise the statistics are computed (pure
\* arithmetic that does not throw), the final progress is emitted and the
\* call resolves.
Finish(rn, restoreErr, cnc) ==
    LET err == IF restoreErr THEN "RestoreSync" ELSE rn.thrown
    IN  IF Propagates(err)
        THEN [rn EXCEPT !.pc = "rejected", !.error = err]
        ELSE [rn EXCEPT !.pc = "resolved",
                        !.progress = FinalProgress(rn.config.iterations, cnc, rn.iter),
                        !.nProgress = @ + 1,
                        !.finalEmitted = TRUE]

\* A loop that asks the registry for the inputs in every iteration
InputsOfRegistry(rn) == regInputs

\* the inputs the loop samples: the array getInputs() returned at the start
InputsOf(rn) == rn.inputs

\* Leaving the try block with `thrown` in flight ("none": normally)
ExitLoop(rn, thrown, cnc) ==
    IF RestoreOnExit(thrown)
    THEN [rn EXCEPT !.pc = "restoreSync", !.thrown = thrown,
                    !.restoreAttempted = TRUE, !.syncs = @ + 1]
    ELSE Finish([rn EXCEPT !.thrown = thrown], FALSE, cnc)

\* The top of the for loop up to the next await: either the loop ends, or
\* the inputs of iteration rn.iter are sampled and the sync is awaited.
LoopTop(rn, cnc, g, amb) ==
    IF ~LoopContinues(rn.iter, rn.config.iterations, cnc)
    THEN [run |-> ExitLoop([rn EXCEPT !.brokeAt =
                                IF cnc /\ rn.iter < rn.config.iterations
                                THEN rn.iter ELSE @], "none", cnc),
          rng |-> g, ok |-> TRUE]
    ELSE LET s == SampleRow(InputsOf(rn), 1, SamplerCtx(g, amb), <<>>)
             rn1 == [rn EXCEPT !.sampled = TRUE,
                               !.firstRng = IF rn.sampled THEN @ ELSE g]
         IN  IF s.c.threw
             THEN [run |-> ExitLoop(rn1, "Sampling", cnc),
                   rng |-> s.c.rng, ok |-> TRUE]
             ELSE [run |-> [rn1 EXCEPT !.inputSamples = Append(@, s.row),
                                       !.pc = "iterSync", !.syncs = @ + 1],
                   rng |-> s.c.rng, ok |-> s.c.ok]

\* The host applies the queued writes of one sync: vals[j] goes to the cell
\* of inputs[j]; of two writes to one cell the later one stays.
WriteCells(cs, inputs, vals) ==
    [c \in DOMAIN cs |->
        LET js == {j \in 1..Len(inputs) : inputs[j].cellAddress = c}
        IN  IF js = {} THEN cs[c]
            ELSE vals[CHOOSE j \in js : \A i \in js : i <= j]]

\* An output read that is served before the queued writes are applied
OutputValueBeforeWrites(cs, out) == cells

\* The evaluator: Excel recalculates and returns the value of an output
\* cell, a fixed function of the contents of the input cells.
OutputValue(cs, out) == cs

(***************************************************************************)
(* useSimulation.ts: what the hook does when the promise of run r settles, *)
(* and runSimulation's own finally (setSimulating(false)).                 *)
(***************************************************************************)
\* A runSimulation that calls setSimulating(false) after the try block
\* instead of in its finally
SettledClearsOnSuccess(r, rn) ==
    /\ isRunning' = IF Terminal(rn.pc) THEN FALSE ELSE isRunning
    /\ results' = IF rn.pc = "resolved" THEN r ELSE results
    /\ hookError' = IF rn.pc = "rejected" THEN rn.error ELSE hookError
    /\ simulating' = IF rn.pc = "resolved" THEN FALSE ELSE simulating

Settled(r, rn) ==
    /\ isRunning' = IF Terminal(rn.pc) THEN FALSE ELSE isRunning
    /\ results' = IF rn.pc = "resolved" THEN r ELSE results
    /\ hookError' = IF rn.pc = "rejected" THEN rn.error ELSE hookError
    /\ simulating' = IF Terminal(rn.pc) THEN FALSE ELSE simulating

Active(rn) == ~Terminal(rn.pc)

(***************************************************************************)
(* statistics.ts: computeHistogram.  The values are integers; bin edges    *)
(* are kept as numerators over the denominator den, and the bin index      *)
(* floor((v - min) / (range / bins)) is floor((v - min) * bins / range).    *)
(***************************************************************************)
RECURSIVE Insert(_, _)
Insert(x, s) ==
    IF s = <<>> THEN <<x>>
    ELSE IF x <= Head(s) THEN <<x>> \o s
    ELSE <<Head(s)>> \o Insert(x, Tail(s))

\* [...values].sort((a, b) => a - b)
RECURSIVE SortAsc(_)
SortAsc(s) == IF s = <<>> THEN <<>> ELSE Insert(Head(s), SortAsc(Tail(s)))

RECURSIVE Log2Floor(_)
Log2Floor(n) == IF n <= 1 THEN 0 ELSE 1 + Log2Floor(n \div 2)

\* Math.ceil(1 + 3.322 * Math.log10(n)): 3.322 log10(n) is log2(n) times
\* 1.00002, so the ceiling is floor(log2(n)) + 2 for 2 <= n < 4096
CeilSturges(n) == IF n = 1 THEN 1 ELSE Log2Floor(n) + 2

\* the default of numBins
DefaultBins(n) == Max(20, Min(100, CeilSturges(n)))

\* A bin index without the guard for the maximum
BinIndexUnclamped(v, mn, range, bins) == ((v - mn) * bins) \div range

\* let idx = Math.floor((sorted[i] - min) / binWidth);
\* if (idx >= bins) idx = bins - 1;
BinIndex(v, mn, range, bins) ==
    LET idx == ((v - mn) * bins) \div range
    IN  IF idx >= bins THEN bins - 1 ELSE idx

\* numBins = 0 stands for an omitted numBins argument.  frequency and
\* density are functions of count and are not kept.
computeHistogram(values, numBins) ==
    LET n == Len(values)
        sorted == SortAsc(values)
    IN  IF n = 0 THEN <<>>
        ELSE LET mn == sorted[1]
                 mx == sorted[n]
                 range == mx - mn
                 bins == IF numBins = 0 THEN DefaultBins(n) ELSE numBins
             IN  IF range = 0
                 THEN << [x0n |-> 2 * mn - 1, x1n |-> 2 * mx + 1, den |-> 2,
                          count |-> n] >>
                 ELSE [i \in 1..bins |->
                         [x0n |-> mn * bins + (i - 1) * range,
                          x1n |-> mn * bins + i * range,
                          den |-> bins,
                          count |-> Cardinality(
                              {j \in 1..n :
                                  BinIndex(sorted[j], mn, range, bins) = i - 1})]]

HistIdle == [values |-> <<>>, numBins |-> 0, bins |-> <<>>, done |-> FALSE]

(***************************************************************************)
(* IEEE 754 double arithmetic, exactly, for the non-negative numbers below *)
(* 8 that are 0 or at least 2^-6: every such double, and every exact sum   *)
(* or product formed below, is a multiple of 2^-60, and is kept as the     *)
(* integer value * 2^60 in five limbs of 15 bits, lowest first.  RoundDbl   *)
(* is the rounding of an exact result to 53 significant bits, ties to      *)
(* even, that every JavaScript arithmetic operation ends with.             *)
(***************************************************************************)
Limb == 2 ^ 15

DblFromInt(v) == <<0, 0, 0, 0, v>>

RECURSIVE AddFrom(_, _, _, _)
AddFrom(a, b, i, c) ==
    IF i > Len(a) THEN <<>>
    ELSE LET t == a[i] + b[i] + c
         IN  <<t % Limb>> \o AddFrom(a, b, i + 1, t \div Limb)

AddLimbs(a, b) == AddFrom(a, b, 1, 0)

RECURSIVE MulFrom(_, _, _, _)
MulFrom(a, k, i, c) ==
    IF i > Len(a) THEN <<>>
    ELSE LET t == a[i] * k + c
         IN  <<t % Limb>> \o MulFrom(a, k, i + 1, t \div Limb)

\* the exact product of a and the integer k < 2^15
MulSmall(a, k) == MulFrom(a, k, 1, 0)

\* the exact quotient of a by the integer d < 2^15, and its remainder
RECURSIVE DivFrom(_, _, _, _)
DivFrom(a, d, i, rem) ==
    IF i = 0 THEN [q |-> <<>>, r |-> rem]
    ELSE LET cur == rem * Limb + a[i]
             rest == DivFrom(a, d, i - 1, cur % d)
         IN  [q |-> rest.q \o <<cur \div d>>, r |-> rest.r]

RECURSIVE TopLimb(_, _)
TopLimb(a, i) == IF i = 0 \/ a[i] # 0 THEN i ELSE TopLimb(a, i - 1)

\* the number of significant bits of a
BitLen(a) ==
    LET t == TopLimb(a, Len(a))
    IN  IF t = 0 THEN 0 ELSE 15 * (t - 1) + Log2Floor(a[t]) + 1

\* a, followed by a non-zero tail below its last bit when sticky, rounded
\* to 53 significant bits; the bits dropped are in the lowest limb
RoundDbl(a, sticky) ==
    LET len == BitLen(a)
        sh == len - 53
        unit == 2 ^ sh
        low == a[1] % unit
        half == unit \div 2
        odd == (a[1] \div unit) % 2 = 1
        down == [a EXCEPT ![1] = a[1] - low]
        up == low > half \/ (low = half /\ (sticky \/ odd))
    IN  IF len <= 53 THEN a
        ELSE IF up THEN AddLimbs(down, <<unit, 0, 0, 0, 0>>)
        ELSE down

RECURSIVE CmpFrom(_, _, _)
CmpFrom(a, b, i) ==
    IF i = 0 THEN 0
    ELSE IF a[i] < b[i] THEN 0 - 1
    ELSE IF a[i] > b[i] THEN 1
    ELSE CmpFrom(a, b, i - 1)

DblLe(a, b) == CmpFrom(a, b, Len(a)) <= 0

\* a / d for integers a and d
DblDivInt(a, d) ==
    LET e == DivFrom(DblFromInt(a), d, 5, 0)
    IN  RoundDbl(e.q, e.r > 0)

\* mn + i * step for integers mn and i
DblAffine(mn, i, step) ==
    RoundDbl(AddLimbs(DblFromInt(mn), RoundDbl(MulSmall(step, i), FALSE)),
             FALSE)

(***************************************************************************)
(* statistics.ts: computeCDF.  A point is [x, neg, k]: x is |x| as above,  *)
(* neg tells x < 0, and cdf is k / n for the n of the call.                *)
(***************************************************************************)
\* while (sortedIdx < n && sorted[sortedIdx] <= x) sortedIdx++
RECURSIVE Advance(_, _, _)
Advance(sorted, sortedIdx, x) ==
    IF sortedIdx < Len(sorted) /\ DblLe(DblFromInt(sorted[sortedIdx + 1]), x)
    THEN Advance(sorted, sortedIdx + 1, x)
    ELSE sortedIdx

\* the loop over i of computeCDF
RECURSIVE CdfPoints(_, _, _, _, _, _)
CdfPoints(sorted, mn, step, numPoints, i, sortedIdx) ==
    IF i >= numPoints THEN <<>>
    ELSE LET x == DblAffine(mn, i, step)
             k == Advance(sorted, sortedIdx, x)
         IN  <<[x |-> x, neg |-> FALSE, k |-> k]>>
             \o CdfPoints(sorted, mn, step, numPoints, i + 1, k)

\* x - 0.5 for an integer x: the sign and |x - 0.5|
MinusHalf(v) ==
    IF v = 0 THEN [x |-> <<0, 0, 0, Limb \div 2, 0>>, neg |-> TRUE]
    ELSE [x |-> <<0, 0, 0, Limb \div 2, v - 1>>, neg |-> FALSE]

computeCDF(values, numPoints) ==
    LET n == Len(values)
        sorted == SortAsc(values)
    IN  IF n = 0 THEN <<>>
        ELSE LET mn == sorted[1]
                 mx == sorted[n]
                 range == mx - mn
             IN  IF range = 0
                 THEN << [x |-> MinusHalf(mn).x, neg |-> MinusHalf(mn).neg,
                          k |-> 0],
                         [x |-> DblFromInt(mn), neg |-> FALSE, k |-> n] >>
                 ELSE CdfPoints(sorted, mn, DblDivInt(range, numPoints - 1),
                                numPoints, 0, 0)

(***************************************************************************)
(* statistics.ts: percentile.  p is the fraction num / den, and the result *)
(* is kept as a numerator over the same den.                               *)
(***************************************************************************)
\* An interpolation with the weights exchanged
InterpolateSwapped(a, b, fr, den) == a * fr + b * (den - fr)

\* sorted[lo] * (1 - frac) + sorted[hi] * frac, times den, for frac = fr / den
Interpolate(a, b, fr, den) == a * (den - fr) + b * fr

percentile(sorted, p) ==
    LET n == Len(sorted)
        idxn == p.num * (n - 1)
        lo == idxn \div p.den
        fr == idxn % p.den
        hi == IF fr = 0 THEN lo ELSE lo + 1
    IN  IF n = 0 THEN [num |-> 0, den |-> p.den]
        ELSE IF n = 1 THEN [num |-> sorted[1] * p.den, den |-> p.den]
        ELSE [num |-> Interpolate(sorted[lo + 1], sorted[hi + 1], fr, p.den),
              den |-> p.den]

(***************************************************************************)
(* statistics.ts: computeStatistics.  Every number is kept as an exact     *)
(* fraction [num, den]; with D[i] = n * values[i] - sum the deviations     *)
(* values[i] - mean are D[i] / n.  stdDev is kept as its square, skewness  *)
(* as the third moment m3 and the variance sd2 it is m3 / sd2^(3/2) of.    *)
(* confidenceLevel is given in percent.                                    *)
(***************************************************************************)
Rat(a, b) == [num |-> a, den |-> b]

RECURSIVE SumSeq(_, _)
SumSeq(s, i) == IF i = 0 THEN 0 ELSE s[i] + SumSeq(s, i - 1)

\* the sum of the e-th powers of the deviations, times n^e
RECURSIVE SumPowDev(_, _, _, _)
SumPowDev(values, total, e, i) ==
    IF i = 0 THEN 0
    ELSE (Len(values) * values[i] - total) ^ e
         + SumPowDev(values, total, e, i - 1)

\* A median that is the upper middle element
MedianUpper(sorted) == Rat(sorted[Len(sorted) \div 2 + 1], 1)

\* sorted is counted from 1: sorted[n / 2 - 1] and sorted[n / 2] are the
\* elements n / 2 and n / 2 + 1
Median(sorted) ==
    LET n == Len(sorted)
    IN  IF n % 2 = 0
        THEN Rat(sorted[n \div 2] + sorted[n \div 2 + 1], 2)
        ELSE Rat(sorted[n \div 2 + 1], 1)

\* A variance with the divisor n - 1
VarianceOfSample(sumSqDev, n) == Rat(sumSqDev, n * n * (n - 1))

\* sumSqDiff / n
Variance(sumSqDev, n) == Rat(sumSqDev, n * n * n)

\* the first bin with the largest count
RECURSIVE MaxBin(_, _, _, _)
MaxBin(bins, i, maxBin, maxCount) ==
    IF i > Len(bins) THEN maxBin
    ELSE IF bins[i] > maxCount THEN MaxBin(bins, i + 1, i - 1, bins[i])
    ELSE MaxBin(bins, i + 1, maxBin, maxCount)

\* the number of bins computeMode uses
ModeBins(n) == Max(10, Min(200, CeilSturges(n)))

computeMode(sorted) ==
    LET n == Len(sorted)
        range == sorted[n] - sorted[1]
        numBins == ModeBins(n)
        bins == [b \in 1..numBins |->
                    Cardinality({i \in 1..n :
                        BinIndex(sorted[i], sorted[1], range, numBins) = b - 1})]
        maxBin == MaxBin(bins, 1, 0, 0)
    IN  IF n <= 2 THEN Rat(sorted[1], 1)
        ELSE IF range = 0 THEN Rat(sorted[1], 1)
        ELSE Rat(2 * numBins * sorted[1] + (2 * maxBin + 1) * range,
                 2 * numBins)

emptyStats ==
    [minimum |-> Rat(0, 1), maximum |-> Rat(0, 1), mean |-> Rat(0, 1),
     median |-> Rat(0, 1), mode |-> Rat(0, 1),
     stdDev |-> [squared |-> Rat(0, 1)], variance |-> Rat(0, 1),
     skewness |-> [m3 |-> Rat(0, 1), sd2 |-> Rat(1, 1)],
     kurtosis |-> Rat(0, 1),
     percentiles |-> [p \in {1, 5, 10, 25, 50, 75, 90, 95, 99} |-> Rat(0, 1)],
     confidenceInterval |-> <<Rat(0, 1), Rat(0, 1)>>,
     probNegative |-> Rat(0, 1), count |-> 0]

computeStatistics(values, confidenceLevel) ==
    LET n == Len(values)
        sorted == SortAsc(values)
        total == SumSeq(values, n)
        sumSqDev == SumPowDev(values, total, 2, n)
        sumCubDev == SumPowDev(values, total, 3, n)
        sumQuadDev == SumPowDev(values, total, 4, n)
        variance == Variance(sumSqDev, n)
        positive == variance.num > 0
        negCount == Cardinality({i \in 1..n : values[i] < 0})
    IN  IF n = 0 THEN emptyStats
        ELSE [minimum |-> Rat(sorted[1], 1),
              maximum |-> Rat(sorted[n], 1),
              mean |-> Rat(total, n),
              median |-> Median(sorted),
              mode |-> computeMode(sorted),
              stdDev |-> [squared |-> variance],
              variance |-> variance,
              skewness |-> IF positive
                           THEN [m3 |-> Rat(sumCubDev, n ^ 4), sd2 |-> variance]
                           ELSE [m3 |-> Rat(0, 1), sd2 |-> Rat(1, 1)],
              kurtosis |-> IF positive
                           THEN Rat(n * sumQuadDev - 3 * sumSqDev * sumSqDev,
                                    sumSqDev * sumSqDev)
                           ELSE Rat(0, 1),
              percentiles |-> [p \in {1, 5, 10, 25, 50, 75, 90, 95, 99} |->
                                  percentile(sorted, Rat(p, 100))],
              confidenceInterval |->
                  <<percentile(sorted, Rat(100 - confidenceLevel, 200)),
                    percentile(sorted, Rat(100 + confidenceLevel, 200))>>,
              probNegative |-> Rat(negCount, n),
              count |-> n]

\* StatisticsTable: the row labelled P(X < threshold) and the value in it
ThresholdRow(stats, threshold) ==
    [threshold |-> threshold, value |-> stats.probNegative]

(***************************************************************************)
(* sensitivity.ts.  A coefficient is kept exactly as [nan, c, sx, sy]: it  *)
(* is NaN, or it is c / sqrt(sx * sy) with c = n * sum(x y) - sum(x)sum(y)  *)
(* and sx, sy the same expression of x, x and of y, y (n^2 times the       *)
(* covariance and the variances).  A sample that overflowed is Infinity;   *)
(* no arithmetic is done on it here: its results are written out.          *)
(***************************************************************************)
Infinity == MaxVal + 1

IsFiniteCol(x) == \A i \in 1..Len(x) : x[i] # Infinity

RECURSIVE SumProd(_, _, _)
SumProd(x, y, i) == IF i = 0 THEN 0 ELSE x[i] * y[i] + SumProd(x, y, i - 1)

\* n^2 times the mean of (x[i] - mean(x)) * (y[i] - mean(y))
Cov(x, y) ==
    Len(x) * SumProd(x, y, Len(x)) - SumSeq(x, Len(x)) * SumSeq(y, Len(y))

ZeroCoefficient == [nan |-> FALSE, c |-> 0, sx |-> 1, sy |-> 1]
NaNCoefficient == [nan |-> TRUE, c |-> 0, sx |-> 1, sy |-> 1]

\* mean and stdDev of a column with Infinity in it are Infinity and NaN,
\* NaN === 0 is false, and the covariance with it is NaN
Coefficient(x, y, finiteX, finiteY) ==
    IF (finiteX /\ Cov(x, x) = 0) \/ (finiteY /\ Cov(y, y) = 0)
    THEN ZeroCoefficient
    ELSE IF ~finiteX \/ ~finiteY THEN NaNCoefficient
    ELSE [nan |-> FALSE, c |-> Cov(x, y), sx |-> Cov(x, x), sy |-> Cov(y, y)]

standardisedRegressionCoefficient(x, y) ==
    Coefficient(x, y, IsFiniteCol(x), IsFiniteCol(y))

\* indexed.sort((a, b) => a.val - b.val), a stable sort
RECURSIVE InsertIndexed(_, _)
InsertIndexed(x, s) ==
    IF s = <<>> THEN <<x>>
    ELSE IF Head(s).val > x.val THEN <<x>> \o s
    ELSE <<Head(s)>> \o InsertIndexed(x, Tail(s))

RECURSIVE SortIndexed(_, _)
SortIndexed(s, i) ==
    IF i = 0 THEN <<>> ELSE InsertIndexed(s[i], SortIndexed(s, i - 1))

\* the inner while: the last place j (from 0) of the group that starts at i
RECURSIVE GroupEnd(_, _, _)
GroupEnd(indexed, i, j) ==
    IF j < Len(indexed) - 1 /\ indexed[j + 2].val = indexed[i + 1].val
    THEN GroupEnd(indexed, i, j + 1)
    ELSE j

\* A rank that is the place of the first element of the group
FirstRank(i, j) == 2 * (i + 1)

\* twice avgRank = (i + j) / 2 + 1
AvgRank(i, j) == i + j + 2

\* the outer while, from place i on
RECURSIVE RankGroups(_, _, _)
RankGroups(indexed, i, result) ==
    IF i >= Len(indexed) THEN result
    ELSE LET j == GroupEnd(indexed, i, i)
             members == {indexed[k + 1].idx : k \in i..j}
         IN  RankGroups(indexed, j + 1,
                        [m \in DOMAIN result |->
                            IF m \in members THEN AvgRank(i, j) ELSE result[m]])

\* ranks(arr), every rank doubled
ranks(arr) ==
    LET indexed == [k \in 1..Len(arr) |-> [val |-> arr[k], idx |-> k]]
    IN  RankGroups(SortIndexed(indexed, Len(arr)), 0,
                   [k \in 1..Len(arr) |-> 0])

\* a rank is never Infinity
spearmanRankCorrelation(x, y) == Coefficient(ranks(x), ranks(y), TRUE, TRUE)

\* Math.abs(b.coefficient) - Math.abs(a.coefficient): "nan", or the sign
\* of the difference
CompareAbs(ra, rb) ==
    LET a == ra.coefficient
        b == rb.coefficient
        l == b.c * b.c * a.sx * a.sy
        r == a.c * a.c * b.sx * b.sy
    IN  IF a.nan \/ b.nan THEN "nan"
        ELSE IF l < r THEN "neg" ELSE IF l > r THEN "pos" ELSE "zero"

\* Array.prototype.sort places a before b for a negative result only (a
\* NaN result counts as 0); it is stable
RECURSIVE InsertResult(_, _)
InsertResult(x, s) ==
    IF s = <<>> THEN <<x>>
    ELSE IF CompareAbs(Head(s), x) = "pos" THEN <<x>> \o s
    ELSE <<Head(s)>> \o InsertResult(x, Tail(s))

RECURSIVE StableSort(_, _)
StableSort(s, i) ==
    IF i = 0 THEN <<>> ELSE InsertResult(s[i], StableSort(s, i - 1))

\* the comparator is consistent: "compares equal" is transitive
ConsistentComparator(s) ==
    \A i, j, k \in 1..Len(s) :
        (CompareAbs(s[i], s[j]) \in {"zero", "nan"}
         /\ CompareAbs(s[j], s[k]) \in {"zero", "nan"})
            => CompareAbs(s[i], s[k]) \in {"zero", "nan"}

Orders(n) == {f \in [1..n -> 1..n] : \A i \in 1..n : \E j \in 1..n : f[j] = i}

\* What results.sort(...) can leave: the stable order, or for a comparator
\* that is not consistent an order the engine chooses
SortOutcomes(s) ==
    IF ConsistentComparator(s) THEN {StableSort(s, Len(s))}
    ELSE {[i \in 1..Len(s) |-> s[f[i]]] : f \in Orders(Len(s))}

\* results before the sort
SensitivityRows(inputSamples, outputValues, inputNames, inputIds) ==
    LET n == Len(outputValues)
    IN  [j \in 1..Len(inputNames) |->
            LET x == [i \in 1..n |-> inputSamples[i][j]]
            IN  [inputId |-> inputIds[j],
                 inputName |-> inputNames[j],
                 coefficient |-> standardisedRegressionCoefficient(x, outputValues),
                 rankCorrelation |-> spearmanRankCorrelation(x, outputValues)]]

\* The lists computeSensitivity can return
computeSensitivity(inputSamples, outputValues, inputNames, inputIds) ==
    IF Len(outputValues) < 3 \/ Len(inputNames) = 0 THEN {<<>>}
    ELSE SortOutcomes(SensitivityRows(inputSamples, outputValues,
                                      inputNames, inputIds))

(***************************************************************************)
(* simulator.ts, "Read outputs": what is pushed for a value the evaluator  *)
(* returned.  A value is [t, n, s]: a number n, a boolean, or a string s   *)
(* (the empty string for an empty cell, text such as "#DIV/0!" for an      *)
(* error); a string is a sequence of characters, "x" standing for every    *)
(* character that is not a digit, a sign or white space.                   *)
(***************************************************************************)
NumberValue(n) == [t |-> "number", n |-> n, s |-> <<>>]
StringValue(s) == [t |-> "string", n |-> 0, s |-> s]
BooleanValue(b) == [t |-> "boolean", n |-> IF b THEN 1 ELSE 0, s |-> <<>>]

\* String(val) of a value that is not a number
StringOf(val) ==
    IF val.t = "boolean"
    THEN IF val.n = 1 THEN <<"x", "x", "x", "x">> ELSE <<"x", "x", "x", "x", "x">>
    ELSE val.s

RECURSIVE TrimStart(_)
TrimStart(s) == IF s # <<>> /\ Head(s) = " " THEN TrimStart(Tail(s)) ELSE s

Digit(c) == IF c = "1" THEN 1 ELSE 0

\* the number the leading digits of s spell after acc, and how many there are
RECURSIVE Digits(_, _, _)
Digits(s, acc, cnt) ==
    IF s # <<>> /\ Head(s) \in {"0", "1"}
    THEN Digits(Tail(s), 10 * acc + Digit(Head(s)), cnt + 1)
    ELSE [v |-> acc, cnt |-> cnt]

\* parseFloat: leading white space is skipped, then the longest prefix that
\* is a number is converted and the rest ignored; NaN without such a prefix
parseFloat(s) ==
    LET t == TrimStart(s)
        neg == t # <<>> /\ Head(t) = "-"
        d == Digits(IF neg THEN Tail(t) ELSE t, 0, 0)
    IN  IF d.cnt = 0 THEN [nan |-> TRUE, v |-> 0]
        ELSE [nan |-> FALSE, v |-> IF neg THEN 0 - d.v ELSE d.v]

\* typeof val === "number" ? val : parseFloat(String(val)) || 0
CoerceOutput(val) ==
    IF val.t = "number" THEN val.n
    ELSE LET p == parseFloat(StringOf(val))
         IN  IF p.nan \/ p.v = 0 THEN 0 ELSE p.v

(***************************************************************************)
(* distributions.ts: the samplers with their arithmetic.  Parameters are   *)
(* integers, a uniform draw is k / Res, and every number is an exact       *)
(* fraction.  A triangular sample is base + sgn * sqrt(q); a number that   *)
(* divides by zero is kept as what IEEE arithmetic makes of it.            *)
(***************************************************************************)
RatNorm(n, d) == IF d < 0 THEN Rat(0 - n, 0 - d) ELSE Rat(n, d)

\* n / d in doubles: a number, or NaN, Infinity or -Infinity when d is 0
Quotient(n, d) ==
    IF d # 0 THEN [k |-> "num", v |-> RatNorm(n, d)]
    ELSE [k |-> IF n = 0 THEN "nan" ELSE IF n > 0 THEN "inf" ELSE "ninf",
          v |-> Rat(0, 1)]

\* u < fc for the draw u = k / Res
DrawBelow(k, fc) ==
    CASE fc.k = "num" -> k * fc.v.den < fc.v.num * Res
      [] fc.k = "inf" -> TRUE
      [] OTHER -> FALSE

sampleTriangular(mn, mode, mx, k) ==
    LET fc == Quotient(mode - mn, mx - mn)
    IN  IF DrawBelow(k, fc)
        THEN [base |-> mn, sgn |-> 1,
              q |-> Rat(k * (mx - mn) * (mode - mn), Res)]
        ELSE [base |-> mx, sgn |-> 0 - 1,
              q |-> Rat((Res - k) * (mx - mn) * (mx - mode), Res)]

\* mean + stdev * sampleStdNormal()
sampleNormal(mean, stdev, z) == mean + stdev * z

\* What sampleGamma(shape, 1) can return: d * v with v > 0 for shape >= 1,
\* and that times rand() ^ (1 / shape), which can be 0, below
GammaOutcomes(shape) ==
    IF shape.num >= shape.den THEN {1, 2} ELSE {0, 1, 2}

\* Math.max(a, 0.5)
AtLeastHalf(a) == IF 2 * a.num < a.den THEN Rat(1, 2) ELSE a

\* the shape parameters a and b of samplePERT for max > min: A / 6, B / 6
\* and M / 6 are mu - min, max - mu and mode - mu
PertShapes(mn, mode, mx) ==
    LET range == mx - mn
        A == 4 * mode + mx - 5 * mn
        B == 5 * mx - mn - 4 * mode
        M == 2 * mode - mn - mx
        alpha1 == Quotient(A * M, M * range)
        positive == alpha1.k = "inf" \/ (alpha1.k = "num" /\ alpha1.v.num > 0)
    IN  IF positive
        THEN [a |-> AtLeastHalf(alpha1.v),
              b |-> AtLeastHalf(RatNorm(alpha1.v.num * B, alpha1.v.den * A))]
        ELSE [a |-> AtLeastHalf(Rat(6 * range + 4 * A, 6 * range)),
              b |-> AtLeastHalf(Rat(6 * range + 4 * B, 6 * range))]

\* A PERT sample whose beta sample is the ratio x / y
PertValueOfRatio(mn, range, x, y) ==
    [nan |-> y = 0, v |-> Rat(mn * y + x * range, Max(y, 1))]

\* min + betaSample * range with betaSample = x / (x + y), NaN for 0 / 0
PertValue(mn, range, x, y) ==
    [nan |-> x + y = 0, v |-> Rat(mn * (x + y) + x * range, Max(x + y, 1))]

\* The values samplePERT can return
samplePERT(mn, mode, mx) ==
    IF mx - mn <= 0 THEN {[nan |-> FALSE, v |-> Rat(mode, 1)]}
    ELSE LET s == PertShapes(mn, mode, mx)
         IN  {PertValue(mn, mx - mn, x, y) :
                 x \in GammaOutcomes(s.a), y \in GammaOutcomes(s.b)}

\* No other helper is being called
StatIdle == [fn |-> "none", values |-> <<>>, arg |-> 0, out |-> <<>>,
             done |-> FALSE]

\* The arrays and numBins arguments computeHistogram is applied to
HistInputs ==
    {[values |-> v, numBins |-> b, bins |-> <<>>, done |-> FALSE] :
        v \in UNION {[1..n -> 0..MaxVal] : n \in 0..MaxLen},
        b \in 0..MaxBinsHint}

\* The add-in after loading: the hook's initial state and the module-level
\* variables of simulator.ts, storage.ts and distributions.ts
AppInit ==
    /\ config = [iterations |-> DEFAULT_ITERATIONS, seed |-> DEFAULT_SEED]
    /\ isRunning = FALSE
    /\ results = 0
    /\ hookError = "none"
    /\ cancelled = FALSE
    /\ simulating = FALSE
    /\ currentIteration = 0
    /\ rng = RngInit
    /\ regOutputs = <<>>
    /\ cells = [c \in CellAddrs |-> Formula]
    /\ runs = <<>>
    /\ evals = 0

\* index.tsx calls restoreFromStorage before the first render: the registry
\* starts empty or with what an earlier session left in localStorage.
Init ==
    /\ AppInit
    /\ regInputs \in {<<>>, <<StoredInput>>}
    /\ hist = HistIdle
    /\ stat = StatIdle
    /\ sheet = BaseSheet

\* useSimulation.setConfig, called by the settings fields of SimulationSetup
\* (enabled while no run is shown as running).  The hook stores what it is
\* given; the iterations field hands it counts clamped to
\* [MIN_ITERATIONS, MAX_ITERATIONS], the model explores small counts.
SetConfig(it, sd) ==
    /\ ~isRunning
    /\ Len(runs) < MaxRuns
    /\ config' = [iterations |-> it, seed |-> sd]
    /\ UNCHANGED <<isRunning, results, hookError, cancelled, simulating,
                   currentIteration, rng, regInputs, regOutputs, cells, runs,
                   evals, hist, stat,
                   sheet>>

\* Excel evaluates the MC distribution function in InputCells[i]
\* (functions.ts mcNormal, mcUniform): it registers itself and returns a
\* sample while simulating, the static value otherwise.
McEvalInput(i) ==
    /\ cells[InputCells[i].address] = Formula
    /\ regInputs' = registerDist(regInputs, InputCells[i])
    /\ \E amb \in AmbientDraws :
        LET c == sampleDistribution(InputCells[i].type, SamplerCtx(rng, amb))
        IN  IF simulating
            THEN evals < MaxEvals /\ c.ok /\ rng' = c.rng /\ evals' = evals + 1
            ELSE rng' = rng /\ evals' = evals
    /\ runs' = [r \in 1..Len(runs) |->
                  IF simulating /\ Active(runs[r])
                  THEN [runs[r] EXCEPT !.overlapped = TRUE] ELSE runs[r]]
    /\ UNCHANGED <<config, isRunning, results, hookError, cancelled,
                   simulating, currentIteration, regOutputs, cells, hist, stat,
                   sheet>>

\* Excel evaluates the MC.OUTPUT in OutputCells[i] (functions.ts mcOutput)
McEvalOutput(i) ==
    /\ regOutputs' = registerOutput(regOutputs, OutputCells[i])
    /\ regOutputs' # regOutputs
    /\ UNCHANGED <<config, isRunning, results, hookError, cancelled,
                   simulating, currentIteration, rng, regInputs, cells, runs,
                   evals, hist, stat,
                   sheet>>

\* The Run button: useSimulation.run and runSimulation up to its first await
RunClick ==
    /\ ~isRunning
    /\ Len(runs) < MaxRuns
    /\ config.iterations <= MaxIter
    /\ LET err == PreconditionError(regInputs, regOutputs, config)
           rn0 == NewRun(config, regInputs, regOutputs)
           others == [r \in 1..Len(runs) |->
                        IF Active(runs[r])
                        THEN [runs[r] EXCEPT !.overlapped = TRUE]
                        ELSE runs[r]]
           live == \E r \in 1..Len(runs) : Active(runs[r])
       IN  IF err # "none"
           THEN /\ runs' = Append(others, [rn0 EXCEPT !.pc = "rejected",
                                                       !.error = err,
                                                       !.overlapped = live])
                /\ isRunning' = FALSE
                /\ hookError' = err
                /\ UNCHANGED <<rng, simulating>>
           ELSE /\ runs' = Append(others, [rn0 EXCEPT !.syncs = 1,
                                                       !.setSim = TRUE,
                                                       !.overlapped = live])
                /\ rng' = SetupRng(rng, config.seed)
                /\ simulating' = TRUE
                /\ isRunning' = TRUE
                /\ hookError' = "none"
    /\ cancelled' = FALSE
    /\ results' = 0
    /\ UNCHANGED <<config, currentIteration, regInputs, regOutputs, cells,
                   evals, hist, stat,
                   sheet>>

\* The Stop button: useSimulation.cancel -> cancelSimulation
CancelClick ==
    /\ isRunning
    /\ cancelled' = TRUE
    /\ isRunning' = FALSE
    /\ runs' = [r \in 1..Len(runs) |->
                  IF runs[r].pc = "iterSync" /\ ~runs[r].cancelReq
                  THEN [runs[r] EXCEPT !.cancelReq = TRUE,
                                       !.startedAtCancel = Len(runs[r].inputSamples)]
                  ELSE runs[r]]
    /\ UNCHANGED <<config, results, hookError, simulating, currentIteration,
                   rng, regInputs, regOutputs, cells, evals, hist, stat,
                   sheet>>

\* The first ctx.sync() (line 366) resolves: the formulas are saved and the
\* loop is entered.
LoadSyncOk(r) ==
    /\ runs[r].pc = "loadSync"
    /\ \E amb \in AmbientDraws :
        LET rn == [runs[r] EXCEPT
                      !.originalFormulas =
                          [j \in 1..Len(runs[r].inputs) |->
                              cells[runs[r].inputs[j].cellAddress]],
                      !.saved = TRUE]
            lt == LoopTop(rn, cancelled, rng, amb)
        IN  /\ lt.ok
            /\ rng' = lt.rng
            /\ runs' = [runs EXCEPT ![r] = lt.run]
            /\ Settled(r, lt.run)
    /\ UNCHANGED <<config, cancelled, currentIteration, regInputs,
                   regOutputs, cells, evals, hist, stat,
                   sheet>>

\* The first ctx.sync() rejects: Excel.run rejects, nothing was saved.
LoadSyncFail(r) ==
    /\ runs[r].pc = "loadSync"
    /\ LET rn == [runs[r] EXCEPT !.pc = "rejected", !.error = "LoadSync",
                                 !.syncFailed = TRUE]
       IN  /\ runs' = [runs EXCEPT ![r] = rn]
           /\ Settled(r, rn)
    /\ UNCHANGED <<config, cancelled, currentIteration, rng, regInputs,
                   regOutputs, cells, evals, hist, stat,
                   sheet>>

\* The sync of iteration runs[r].iter resolves (line 399): the sampled
\* values are in the cells, the outputs are read and recorded, the progress
\* callback may fire, and the loop goes on to its next await.
IterSyncOk(r) ==
    /\ runs[r].pc = "iterSync"
    /\ \E amb \in AmbientDraws :
        LET rn == runs[r]
            n == rn.config.iterations
            cs == WriteCells(cells, rn.inputs, rn.inputSamples[Len(rn.inputSamples)])
            due == ProgressDue(rn.iter, n)
            rn1 == [rn EXCEPT
                      !.outputValues =
                          [k \in 1..Len(rn.outputs) |->
                              Append(rn.outputValues[k], OutputValue(cs, rn.outputs[k]))],
                      !.progress = IF due THEN InLoopProgress(rn.iter, n, cancelled)
                                   ELSE @,
                      !.nProgress = IF due THEN @ + 1 ELSE @,
                      !.iter = @ + 1]
            lt == LoopTop(rn1, cancelled, rng, amb)
        IN  /\ lt.ok
            /\ cells' = cs
            /\ currentIteration' = rn.iter + 1
            /\ rng' = lt.rng
            /\ runs' = [runs EXCEPT ![r] = lt.run]
            /\ Settled(r, lt.run)
    /\ UNCHANGED <<config, cancelled, regInputs, regOutputs, evals, hist, stat,
                   sheet>>

\* The sync of an iteration rejects: the queued writes are not applied.
IterSyncFail(r) ==
    /\ runs[r].pc = "iterSync"
    /\ LET rn == runs[r]
           rn1 == ExitLoop([rn EXCEPT !.syncFailed = TRUE], "IterSync", cancelled)
       IN  /\ runs' = [runs EXCEPT ![r] = rn1]
           /\ Settled(r, rn1)
    /\ UNCHANGED <<config, cancelled, currentIteration, rng, regInputs,
                   regOutputs, cells, evals, hist, stat,
                   sheet>>

\* The restore sync (line 432) resolves: the saved formulas are in the cells.
RestoreSyncOk(r) ==
    /\ runs[r].pc = "restoreSync"
    /\ LET rn == runs[r]
           cs == WriteCells(cells, rn.inputs, rn.originalFormulas)
           rn1 == Finish([rn EXCEPT !.restoreOk = TRUE,
                                    !.formulasBack =
                                        \A j \in 1..Len(rn.inputs) :
                                            cs[rn.inputs[j].cellAddress] = rn.originalFormulas[j]],
                         FALSE, cancelled)
       IN  /\ cells' = cs
           /\ runs' = [runs EXCEPT ![r] = rn1]
           /\ Settled(r, rn1)
    /\ UNCHANGED <<config, cancelled, currentIteration, rng, regInputs,
                   regOutputs, evals, hist, stat,
                   sheet>>

\* The restore sync rejects: the queued writes are not applied.
RestoreSyncFail(r) ==
    /\ runs[r].pc = "restoreSync"
    /\ LET rn == runs[r]
           rn1 == Finish([rn EXCEPT !.syncFailed = TRUE], TRUE, cancelled)
       IN  /\ runs' = [runs EXCEPT ![r] = rn1]
           /\ Settled(r, rn1)
    /\ UNCHANGED <<config, cancelled, currentIteration, rng, regInputs,
                   regOutputs, cells, evals, hist, stat,
                   sheet>>

Next ==
    \/ \E it \in IterationChoices, sd \in Seeds : SetConfig(it, sd)
    \/ \E i \in 1..Len(InputCells) : McEvalInput(i)
    \/ \E i \in 1..Len(OutputCells) : McEvalOutput(i)
    \/ RunClick
    \/ CancelClick
    \/ \E r \in 1..Len(runs) :
        \/ LoadSyncOk(r)
        \/ LoadSyncFail(r)
        \/ IterSyncOk(r)
        \/ IterSyncFail(r)
        \/ RestoreSyncOk(r)
        \/ RestoreSyncFail(r)

Spec == Init /\ [][Next]_vars

(***************************************************************************)
(* The statistics helpers on their own: a values array and a numBins       *)
(* argument are chosen, computeHistogram is applied to them.               *)
(***************************************************************************)
InitHist ==
    /\ AppInit
    /\ regInputs = <<>>
    /\ hist \in HistInputs
    /\ stat = StatIdle
    /\ sheet = BaseSheet

ComputeHistogram ==
    /\ ~hist.done
    /\ hist' = [hist EXCEPT !.bins = computeHistogram(hist.values, hist.numBins),
                            !.done = TRUE]
    /\ UNCHANGED <<config, isRunning, results, hookError, cancelled,
                   simulating, currentIteration, rng, regInputs, regOutputs,
                   cells, runs, evals, stat, sheet>>

NextHist == ComputeHistogram

SpecHist == InitHist /\ [][NextHist]_vars

\* The arrays of integers the helpers are applied to
ValueArrays == UNION {[1..n -> 0..MaxVal] : n \in 0..MaxLen}

\* The rest of the add-in while a helper is looked at on its own
HelperInit ==
    /\ AppInit
    /\ regInputs = <<>>
    /\ hist = HistIdle
    /\ sheet = BaseSheet

\* What a helper call leaves alone
HelperFrame ==
    UNCHANGED <<config, isRunning, results, hookError, cancelled, simulating,
                currentIteration, rng, regInputs, regOutputs, cells, runs,
                evals, hist, sheet>>

(***************************************************************************)
(* computeCDF on its own: an array and a numPoints argument are chosen.    *)
(***************************************************************************)
InitCdf ==
    /\ HelperInit
    /\ stat \in {[fn |-> "computeCDF", values |-> v, arg |-> np,
                   out |-> <<>>, done |-> FALSE] :
                     v \in ValueArrays, np \in 2..MaxPoints}

ComputeCdf ==
    /\ ~stat.done
    /\ stat' = [stat EXCEPT !.out = computeCDF(stat.values, stat.arg),
                            !.done = TRUE]
    /\ HelperFrame

NextCdf == ComputeCdf

SpecCdf == InitCdf /\ [][NextCdf]_vars

\* Ascending arrays, one longer and one value wider than ValueArrays
SortedArrays ==
    {s \in UNION {[1..n -> 0..(MaxVal + 1)] : n \in 0..(MaxLen + 1)} :
        \A i \in 1..(Len(s) - 1) : s[i] <= s[i + 1]}

\* The fractions in [0,1]
Fractions == {p \in [num : 0..MaxDen, den : 1..MaxDen] : p.num <= p.den}

(***************************************************************************)
(* percentile on its own: an ascending array and a p in [0,1] are chosen.  *)
(***************************************************************************)
InitPercentile ==
    /\ HelperInit
    /\ stat \in {[fn |-> "percentile", values |-> v, arg |-> p,
                   out |-> <<>>, done |-> FALSE] :
                     v \in SortedArrays, p \in Fractions}

Percentile ==
    /\ ~stat.done
    /\ stat' = [stat EXCEPT !.out = percentile(stat.values, stat.arg),
                            !.done = TRUE]
    /\ HelperFrame

NextPercentile == Percentile

SpecPercentile == InitPercentile /\ [][NextPercentile]_vars

\* largest number of inputs and of iterations of a sensitivity analysis
MaxInputs == 3
MaxRows == 3

\* samples of an input, and values of an output cell
SampleValues == {0, 1, Infinity}
OutputValues == {0, 1}
InputIdOf == <<"Sheet1!A2", "Sheet1!A3", "Sheet1!A4">>

(***************************************************************************)
(* computeSensitivity on its own: the samples of up to MaxInputs inputs    *)
(* and the values of one output over 2..MaxRows iterations are chosen.     *)
(***************************************************************************)
InitSensitivity ==
    /\ HelperInit
    /\ \E n \in 2..MaxRows, k \in 0..MaxInputs :
         stat \in {[fn |-> "computeSensitivity", values |-> y,
                    arg |-> [inputSamples |-> m,
                             inputNames |-> [j \in 1..k |-> InputIdOf[j]],
                             inputIds |-> [j \in 1..k |-> InputIdOf[j]]],
                    out |-> <<>>, done |-> FALSE] :
                      y \in [1..n -> OutputValues],
                      m \in [1..n -> [1..k -> SampleValues]]}

ComputeSensitivity ==
    /\ ~stat.done
    /\ \E out \in computeSensitivity(stat.arg.inputSamples, stat.values,
                                      stat.arg.inputNames, stat.arg.inputIds) :
         stat' = [stat EXCEPT !.out = out, !.done = TRUE]
    /\ HelperFrame

NextSensitivity == ComputeSensitivity

SpecSensitivity == InitSensitivity /\ [][NextSensitivity]_vars

\* The cells the user edits and what is typed into them
EditCells == {"A2", "B1"}
TypedFunctions ==
    {NoFunction, DistFunction("normal", "cost"), DistFunction("normal", ""),
     DistFunction("uniform", "cost"), OutputFunction("npv")}

\* Excel evaluates what cell a holds: an MC distribution function calls
\* registerDist, an MC.OUTPUT calls registerOutput
EvalInputs(reg, a, f) ==
    IF f.kind = "dist"
    THEN registerDist(reg, [address |-> a, type |-> f.type, name |-> f.name])
    ELSE reg

EvalOutputs(reg, a, f) ==
    IF f.kind = "output"
    THEN registerOutput(reg, [address |-> a, name |-> f.name])
    ELSE reg

(***************************************************************************)
(* The registry and the workbook: the user types a function into a cell,   *)
(* or clears it, and Excel evaluates the cell; Excel recalculates a cell.  *)
(* No run is in progress.                                                  *)
(***************************************************************************)
InitRegistry ==
    /\ AppInit
    /\ regInputs = <<>>
    /\ hist = HistIdle
    /\ stat = StatIdle
    /\ sheet = EmptySheet

RegistryFrame ==
    UNCHANGED <<config, isRunning, results, hookError, cancelled, simulating,
                currentIteration, rng, cells, runs, evals, hist, stat>>

EditCell(a, f) ==
    /\ sheet[a] # f
    /\ sheet' = [sheet EXCEPT ![a] = f]
    /\ regInputs' = EvalInputs(regInputs, a, f)
    /\ regOutputs' = EvalOutputs(regOutputs, a, f)
    /\ RegistryFrame

Recalculate(a) ==
    /\ sheet[a].kind # "none"
    /\ regInputs' = EvalInputs(regInputs, a, sheet[a])
    /\ regOutputs' = EvalOutputs(regOutputs, a, sheet[a])
    /\ UNCHANGED sheet
    /\ RegistryFrame

NextRegistry ==
    \/ \E a \in EditCells, f \in TypedFunctions : EditCell(a, f)
    \/ \E a \in EditCells : Recalculate(a)

SpecRegistry == InitRegistry /\ [][NextRegistry]_vars

\* A distribution function and an MC.OUTPUT that register while a run is in
\* flight
LateInputCell == [address |-> "A3", type |-> "uniform", name |-> "price"]
LateOutputCell == [address |-> "B2", name |-> "irr"]

SnapshotFrame ==
    UNCHANGED <<config, isRunning, results, hookError, cancelled, simulating,
                currentIteration, rng, cells, runs, evals, hist, stat, sheet>>

\* One of the registry operations of storage.ts is called while a
\* runSimulation call is in progress
RegistryCall ==
    /\ \E r \in 1..Len(runs) : Active(runs[r])
    /\ \/ regInputs' = registerDist(regInputs, LateInputCell)
          /\ regOutputs' = regOutputs
       \/ \E i \in 1..Len(regInputs) :
             /\ regInputs' = removeInput(regInputs, regInputs[i].id)
             /\ regOutputs' = regOutputs
       \/ regInputs' = clearInputs(regInputs)
          /\ regOutputs' = regOutputs
       \/ regOutputs' = registerOutput(regOutputs, LateOutputCell)
          /\ regInputs' = regInputs
       \/ regOutputs' = clearOutputs(regOutputs)
          /\ regInputs' = regInputs
    /\ <<regInputs, regOutputs>>' # <<regInputs, regOutputs>>
    /\ SnapshotFrame

(***************************************************************************)
(* Runs with the registry changing under them: the actions of the add-in   *)
(* with seeded runs of MaxIter iterations, no cancel and no failing round  *)
(* trip, and the registry operations called while a run is in progress.    *)
(***************************************************************************)
NextSnapshot ==
    \/ SetConfig(MaxIter, 1)
    \/ \E i \in 1..Len(InputCells) : McEvalInput(i)
    \/ \E i \in 1..Len(OutputCells) : McEvalOutput(i)
    \/ RunClick
    \/ RegistryCall
    \/ \E r \in 1..Len(runs) :
        \/ LoadSyncOk(r)
        \/ IterSyncOk(r)
        \/ RestoreSyncOk(r)

SpecSnapshot == Init /\ [][NextSnapshot]_vars

\* longest string an output cell returns
MaxStr == 3

\* The values the evaluator returns for an output cell
Characters == {"0", "1", "-", " ", "x"}
EvaluatorValues ==
    {NumberValue(n) : n \in (0 - 1)..1}
    \cup {BooleanValue(b) : b \in BOOLEAN}
    \cup {StringValue(s) : s \in UNION {[1..n -> Characters] : n \in 0..MaxStr}}

(***************************************************************************)
(* The reading of one output in one iteration on its own: the evaluator    *)
(* returns a value and runSimulation pushes what it makes of it.           *)
(***************************************************************************)
InitReadOutput ==
    /\ HelperInit
    /\ stat \in {[fn |-> "readOutput", values |-> <<val>>, arg |-> 0,
                   out |-> <<>>, done |-> FALSE] : val \in EvaluatorValues}

ReadOutput ==
    /\ ~stat.done
    /\ stat' = [stat EXCEPT !.out = Append(@, CoerceOutput(stat.values[1])),
                            !.done = TRUE]
    /\ HelperFrame

NextReadOutput == ReadOutput

SpecReadOutput == InitReadOutput /\ [][NextReadOutput]_vars

(***************************************************************************)
(* ranks on its own: an array is chosen and ranked.                        *)
(***************************************************************************)
InitRanks ==
    /\ HelperInit
    /\ stat \in {[fn |-> "ranks", values |-> v, arg |-> 0, out |-> <<>>,
                   done |-> FALSE] : v \in ValueArrays}

Ranks ==
    /\ ~stat.done
    /\ stat' = [stat EXCEPT !.out = ranks(stat.values), !.done = TRUE]
    /\ HelperFrame

NextRanks == Ranks

SpecRanks == InitRanks /\ [][NextRanks]_vars

\* largest config.iterations of a run whose progress updates are followed
MaxLoop == 12

(***************************************************************************)
(* The progress updates of one runSimulation call, with the sampling and   *)
(* the values of the evaluator left out.  stat.arg is the call: its        *)
(* config.iterations, its iter and the await it is suspended at;           *)
(* stat.values is the list of the updates it has emitted, each with the    *)
(* place it was emitted at.  The cancel flag is set by cancelSimulation    *)
(* and reset by another runSimulation call while this one is suspended.    *)
(***************************************************************************)
InitProgress ==
    /\ HelperInit
    /\ stat \in {[fn |-> "progress", values |-> <<>>,
                   arg |-> [iterations |-> n, iter |-> 0, pc |-> "loadSync",
                            thrown |-> "none"],
                   out |-> <<>>, done |-> FALSE] : n \in 0..MaxLoop}

ProgressFrame ==
    UNCHANGED <<config, isRunning, results, hookError, simulating,
                currentIteration, rng, regInputs, regOutputs, cells, runs,
                evals, hist, sheet>>

\* the for condition and the cancel check before iteration iter
AtLoopTop(call, iter, cnc) ==
    [call EXCEPT !.iter = iter,
                 !.pc = IF LoopContinues(iter, call.iterations, cnc)
                        THEN "iterSync" ELSE "restoreSync"]

ProgressLoadSyncOk ==
    /\ stat.arg.pc = "loadSync"
    /\ stat' = [stat EXCEPT !.arg = AtLoopTop(@, 0, cancelled)]
    /\ UNCHANGED cancelled
    /\ ProgressFrame

\* the sync of iteration iter resolves: the outputs are read, the update is
\* emitted when it is due, and the loop goes on to its next test
ProgressIterSyncOk ==
    /\ stat.arg.pc = "iterSync"
    /\ LET c == stat.arg
           due == ProgressDue(c.iter, c.iterations)
           up == [at |-> "loop"] @@ InLoopProgress(c.iter, c.iterations, cancelled)
       IN  stat' = [stat EXCEPT
                      !.values = IF due THEN Append(@, up) ELSE @,
                      !.arg = AtLoopTop(@, c.iter + 1, cancelled)]
    /\ UNCHANGED cancelled
    /\ ProgressFrame

ProgressIterSyncFail ==
    /\ stat.arg.pc = "iterSync"
    /\ stat' = [stat EXCEPT !.arg.pc = "restoreSync", !.arg.thrown = "IterSync"]
    /\ UNCHANGED cancelled
    /\ ProgressFrame

\* the restore sync settles: the call rejects with the error in flight, or
\* emits the final update and resolves
ProgressRestoreSync(failed) ==
    /\ stat.arg.pc = "restoreSync"
    /\ LET c == stat.arg
           err == IF failed THEN "RestoreSync" ELSE c.thrown
           up == [at |-> "final"] @@ FinalProgress(c.iterations, cancelled, c.iter)
       IN  IF Propagates(err)
           THEN stat' = [stat EXCEPT !.arg.pc = "rejected", !.done = TRUE]
           ELSE stat' = [stat EXCEPT !.values = Append(@, up),
                                     !.arg.pc = "resolved", !.done = TRUE]
    /\ UNCHANGED cancelled
    /\ ProgressFrame

\* cancelSimulation(), or `_cancelled = false` of another runSimulation
\* call, while the call is suspended
ProgressSetCancelled(flag) ==
    /\ ~stat.done
    /\ cancelled # flag
    /\ cancelled' = flag
    /\ UNCHANGED stat
    /\ ProgressFrame

NextProgress ==
    \/ ProgressLoadSyncOk
    \/ ProgressIterSyncOk
    \/ ProgressIterSyncFail
    \/ \E failed \in BOOLEAN : ProgressRestoreSync(failed)
    \/ \E flag \in BOOLEAN : ProgressSetCancelled(flag)

SpecProgress == InitProgress /\ [][NextProgress]_vars

\* largest number of values whose bin counts are compared
MaxCount == 100

(***************************************************************************)
(* The bin counts on their own: for an array of n values, the number of    *)
(* bins computeHistogram uses without a numBins argument and the number    *)
(* computeMode uses.                                                       *)
(***************************************************************************)
InitBins ==
    /\ HelperInit
    /\ stat \in {[fn |-> "bins", values |-> <<>>, arg |-> n, out |-> <<>>,
                   done |-> FALSE] : n \in 1..MaxCount}

Bins ==
    /\ ~stat.done
    /\ stat' = [stat EXCEPT !.out = [histogram |-> DefaultBins(stat.arg),
                                     mode |-> ModeBins(stat.arg)],
                            !.done = TRUE]
    /\ HelperFrame

NextBins == Bins

SpecBins == InitBins /\ [][NextBins]_vars

\* The parameters of a sampler and the values sampleStdNormal returns
Parameters == 0..(MaxVal - 1)
StdNormals == {0 - 1, 0, 1}

(***************************************************************************)
(* The samplers on their own: a distribution and its parameters are        *)
(* chosen, degenerate ones included, and one sample is drawn.              *)
(***************************************************************************)
InitSamplers ==
    /\ HelperInit
    /\ stat \in {[fn |-> f, values |-> <<>>, arg |-> <<p1, p2, p3>>,
                   out |-> <<>>, done |-> FALSE] :
                     f \in {"triangular", "pert", "normal"},
                     p1 \in Parameters, p2 \in Parameters, p3 \in Parameters}

SampleTriangular ==
    /\ ~stat.done /\ stat.fn = "triangular"
    /\ \E k \in 0..(Res - 1) :
          stat' = [stat EXCEPT
                     !.out = sampleTriangular(stat.arg[1], stat.arg[2],
                                              stat.arg[3], k),
                     !.done = TRUE]
    /\ HelperFrame

SamplePERT ==
    /\ ~stat.done /\ stat.fn = "pert"
    /\ \E v \in samplePERT(stat.arg[1], stat.arg[2], stat.arg[3]) :
          stat' = [stat EXCEPT !.out = v, !.done = TRUE]
    /\ HelperFrame

\* arg is <<mean, stdev, unused>>
SampleNormal ==
    /\ ~stat.done /\ stat.fn = "normal"
    /\ \E z \in StdNormals :
          stat' = [stat EXCEPT
                     !.out = sampleNormal(stat.arg[1], stat.arg[2], z),
                     !.done = TRUE]
    /\ HelperFrame

NextSamplers == SampleTriangular \/ SamplePERT \/ SampleNormal

SpecSamplers == InitSamplers /\ [][NextSamplers]_vars

\* Arrays with negative values in them
SignedArrays == UNION {[1..n -> (0 - 1)..(MaxVal - 1)] : n \in 0..MaxLen}

\* config.confidenceLevel, in percent, and config.probabilityThreshold
ConfidenceLevels == {50, 90}
Thresholds == {0 - 1, 0, 1}

(***************************************************************************)
(* computeStatistics and the statistics table on their own: the values of  *)
(* one output and the config of the run are chosen; the statistics are     *)
(* computed as runSimulation does and shown as ResultsDashboard does.      *)
(***************************************************************************)
InitStats ==
    /\ HelperInit
    /\ stat \in {[fn |-> "computeStatistics", values |-> v,
                   arg |-> [confidenceLevel |-> c, probabilityThreshold |-> t],
                   out |-> <<>>, done |-> FALSE] :
                     v \in SignedArrays, c \in ConfidenceLevels,
                     t \in Thresholds}

ComputeStatistics ==
    /\ ~stat.done
    /\ LET stats == computeStatistics(stat.values, stat.arg.confidenceLevel)
       IN  stat' = [stat EXCEPT
                      !.out = [stats |-> stats,
                               row |-> ThresholdRow(stats,
                                          stat.arg.probabilityThreshold)],
                      !.done = TRUE]
    /\ HelperFrame

NextStats == ComputeStatistics

SpecStats == InitStats /\ [][NextStats]_vars

(***************************************************************************)
(* Properties.                                                             *)
(***************************************************************************)
RunIds == 1..Len(runs)

RECURSIVE SumCounts(_, _)
SumCounts(bins, i) == IF i = 0 THEN 0 ELSE bins[i].count + SumCounts(bins, i - 1)

\* The errors runSimulation can reject with
RunErrors ==
    {"NoInputs", "NoOutputs", "LoadSync", "IterSync", "Sampling", "RestoreSync"}

\* C1: a run whose loop observed the cancel flag after k < config.iterations
\* completed iterations (and none of whose round trips failed) resolves with
\* k values for every output and k rows of input samples, and its final
\* progress update has status "cancelled".
C1_CancelledRunResolvesWithPartialResult ==
    \A r \in RunIds :
        LET rn == runs[r]
        IN  (rn.brokeAt >= 0 /\ Terminal(rn.pc) /\ ~rn.syncFailed) =>
                /\ rn.pc = "resolved"
                /\ Len(rn.inputSamples) = rn.brokeAt
                /\ \A k \in 1..Len(rn.outputs) :
                       Len(rn.outputValues[k]) = rn.brokeAt
                /\ rn.progress.status = "cancelled"

\* C2: once cancel was requested while a run was in its iteration loop, the
\* cancel flag stays set until that run has terminated, and the run samples
\* no further iteration after the one in flight.
C2_CancelFlagStaysSetUntilRunEnds ==
    \A r \in RunIds :
        LET rn == runs[r]
        IN  rn.cancelReq =>
                /\ Active(rn) => cancelled
                /\ Len(rn.inputSamples) = rn.startedAtCancel

\* C3 as stated: a settled run that had saved the original formulas has
\* them back in every input cell.
C3_FormulasBackOnEveryExit ==
    \A r \in RunIds :
        LET rn == runs[r]
        IN  (rn.saved /\ Terminal(rn.pc)) => rn.formulasBack

\* C3: a settled run that had saved the original formulas has queued their
\* write-back and awaited its round trip, however the loop ended; the
\* formulas are back in every input cell when that round trip succeeded,
\* and the run rejected with the round trip's error when it failed.
C3_RestoreAttemptedOnEveryExit ==
    \A r \in RunIds :
        LET rn == runs[r]
        IN  (rn.saved /\ Terminal(rn.pc)) =>
                /\ rn.restoreAttempted
                /\ rn.restoreOk => rn.formulasBack
                /\ ~rn.restoreOk =>
                       (rn.pc = "rejected" /\ rn.error = "RestoreSync")

\* a run left its loop by a failed round trip and has its formulas back
C3_Witness ==
    \E r \in RunIds :
        /\ runs[r].thrown = "IterSync"
        /\ Terminal(runs[r].pc)
        /\ runs[r].restoreOk
        /\ runs[r].formulasBack

\* C4: a runSimulation call that finds no inputs, or no outputs, in the
\* registry rejects without having drawn a sample, made a round trip, set
\* isSimulating or emitted a progress update.
C4_PreconditionFailureRejectsFirst ==
    \A r \in RunIds :
        LET rn == runs[r]
        IN  (Len(rn.inputs) = 0 \/ Len(rn.outputs) = 0) =>
                /\ rn.pc = "rejected"
                /\ rn.error = IF Len(rn.inputs) = 0 THEN "NoInputs"
                              ELSE "NoOutputs"
                /\ ~rn.sampled
                /\ rn.inputSamples = <<>>
                /\ rn.syncs = 0
                /\ ~rn.setSim
                /\ rn.nProgress = 0

\* a call was made with inputs registered and no output
C4_Witness ==
    \E r \in RunIds :
        /\ Len(runs[r].inputs) > 0
        /\ Len(runs[r].outputs) = 0
        /\ runs[r].pc = "rejected"

C6_RejectsWithEvaluatorError ==
    \A r \in RunIds :
        LET rn == runs[r]
        IN  (rn.thrown = "IterSync" /\ Terminal(rn.pc)) =>
                /\ rn.pc = "rejected"
                /\ rn.error = "IterSync"
                /\ ~rn.finalEmitted

\* C6: a run in which the round trip of an iteration failed rejects, with
\* that error when the restore round trip succeeded and with the restore
\* round trip's error otherwise; its values are never shown as results and
\* it emits no final progress update.
C6_EvaluatorFailureRejects ==
    \A r \in RunIds :
        LET rn == runs[r]
        IN  (rn.thrown = "IterSync" /\ Terminal(rn.pc)) =>
                /\ rn.pc = "rejected"
                /\ rn.error = IF rn.restoreOk THEN "IterSync" ELSE "RestoreSync"
                /\ results # r
                /\ ~rn.finalEmitted
                /\ rn.progress.status \notin {"completed", "cancelled"}

\* the round trip of a later iteration failed after values were collected
C6_Witness ==
    \E r \in RunIds :
        /\ runs[r].thrown = "IterSync"
        /\ runs[r].pc = "rejected"
        /\ \E k \in 1..Len(runs[r].outputs) : Len(runs[r].outputValues[k]) > 0

\* C7: the random source at the first draw of a seeded run is the one
\* seedRng(config.seed) leaves, with no spare; two resolved, uncancelled
\* runs with the same seed > 0, iteration count and inputs have the same
\* input samples and the same output values.
C7_SeededRunsAreIdentical ==
    /\ \A r \in RunIds :
        (runs[r].sampled /\ runs[r].config.seed > 0) =>
            runs[r].firstRng = SetupRng(RngInit, runs[r].config.seed)
    /\ \A r1, r2 \in RunIds :
        (/\ runs[r1].pc = "resolved" /\ runs[r2].pc = "resolved"
         /\ runs[r1].brokeAt < 0 /\ runs[r2].brokeAt < 0
         /\ runs[r1].config = runs[r2].config
         /\ runs[r1].config.seed > 0
         /\ runs[r1].inputs = runs[r2].inputs
         /\ runs[r1].outputs = runs[r2].outputs) =>
            /\ runs[r1].inputSamples = runs[r2].inputSamples
            /\ runs[r1].outputValues = runs[r2].outputValues

\* C8: a run samples the inputs of an iteration only after it has read the
\* outputs of the one before, and at most one run is inside its iteration
\* loop.
C8_OneRunInItsLoop ==
    /\ \A r \in RunIds :
        \A k \in 1..Len(runs[r].outputs) :
            Len(runs[r].inputSamples) <= Len(runs[r].outputValues[k]) + 1
    /\ \A r1, r2 \in RunIds :
        (runs[r1].pc = "iterSync" /\ runs[r2].pc = "iterSync") => r1 = r2

\* C9: the last progress update of every run (taken here among the runs
\* that never overlapped another run) reports as currentIteration the
\* number of iterations the run had completed, between 0 and
\* totalIterations, and totalIterations is config.iterations.
C9_ProgressReportsCompletedIterations ==
    \A r \in RunIds :
        LET p == runs[r].progress
        IN  (p.status # "none" /\ ~runs[r].overlapped) =>
                /\ p.currentIteration = p.completed
                /\ 0 <= p.currentIteration
                /\ p.currentIteration <= p.totalIterations
                /\ p.totalIterations = runs[r].config.iterations

\* C11: for a non-empty array and numPoints >= 2, the points of computeCDF
\* have non-decreasing x and non-decreasing cdf, every cdf is in [0,1],
\* the last point has x equal to the maximum and cdf 1, and a constant
\* array gives the two points (min - 0.5, 0), (min, 1).
C11_CdfEndsAtMaximumWithOne ==
    (stat.fn = "computeCDF" /\ stat.done /\ Len(stat.values) > 0) =>
        LET pts == stat.out
            n == Len(stat.values)
            sorted == SortAsc(stat.values)
        IN  /\ Len(pts) >= 2
            /\ \A i \in 1..Len(pts) : 0 <= pts[i].k /\ pts[i].k <= n
            /\ \A i \in 1..(Len(pts) - 1) :
                   /\ pts[i].k <= pts[i + 1].k
                   /\ pts[i].neg \/ (~pts[i + 1].neg
                                      /\ DblLe(pts[i].x, pts[i + 1].x))
            /\ pts[Len(pts)].x = DblFromInt(sorted[n])
            /\ ~pts[Len(pts)].neg
            /\ pts[Len(pts)].k = n
            /\ sorted[1] = sorted[n] =>
                   /\ Len(pts) = 2
                   /\ pts[1].k = 0
                   /\ pts[1].x = MinusHalf(sorted[1]).x
                   /\ pts[1].neg = MinusHalf(sorted[1]).neg

\* C12: percentile(sorted, p) on an ascending array of length n >= 2 is
\* sorted[lo] + frac * (sorted[hi] - sorted[lo]) for lo = floor(p (n-1)),
\* hi = ceil(p (n-1)) and frac the fractional part of p (n-1): the minimum
\* at p = 0, the maximum at p = 1, 2.5 for [1,2,3,4] at p = 0.5; it is the
\* single element for n = 1 and 0 for n = 0.
C12_PercentileInterpolates ==
    (stat.fn = "percentile" /\ stat.done) =>
        LET s == stat.values
            n == Len(s)
            p == stat.arg
            num == stat.out.num
            den == p.den
            \* floor and ceiling of p (n-1), counted from 1
            lo == CHOOSE k \in 1..n :
                      (k - 1) * den <= p.num * (n - 1)
                      /\ p.num * (n - 1) < k * den
            hi == CHOOSE k \in 1..n :
                      (k - 2) * den < p.num * (n - 1)
                      /\ p.num * (n - 1) <= (k - 1) * den
        IN  /\ stat.out.den = den
            /\ n = 0 => num = 0
            /\ n = 1 => num = s[1] * den
            /\ n >= 2 =>
                   /\ num = s[lo] * den
                           + (p.num * (n - 1) - (lo - 1) * den) * (s[hi] - s[lo])
                   /\ p.num = 0 => num = s[1] * den
                   /\ p.num = p.den => num = s[n] * den
            /\ (s = <<1, 2, 3, 4>> /\ 2 * p.num = p.den) => 2 * num = 5 * den

\* the median of [1,2,3,4] is 2.5
C12_Witness ==
    /\ stat.fn = "percentile"
    /\ stat.done
    /\ stat.values = <<1, 2, 3, 4>>
    /\ stat.arg = [num |-> 1, den |-> 2]
    /\ stat.out = [num |-> 5, den |-> 2]

\* the fraction r is the integer v
RatIs(r, v) == r.den > 0 /\ r.num = v * r.den

\* C13: computeStatistics of the empty array is all zero with count 0; of
\* a one-element array [v] it has minimum, maximum, mean, median, mode,
\* every percentile and both confidence bounds equal to v, stdDev,
\* variance, skewness and kurtosis 0, and count 1.
C13_StatisticsOfEmptyAndSingle ==
    (stat.fn = "computeStatistics" /\ stat.done /\ Len(stat.values) <= 1) =>
        LET st == stat.out.stats
            v == IF Len(stat.values) = 0 THEN 0 ELSE stat.values[1]
        IN  /\ st.count = Len(stat.values)
            /\ RatIs(st.minimum, v) /\ RatIs(st.maximum, v)
            /\ RatIs(st.mean, v) /\ RatIs(st.median, v) /\ RatIs(st.mode, v)
            /\ \A p \in DOMAIN st.percentiles : RatIs(st.percentiles[p], v)
            /\ RatIs(st.confidenceInterval[1], v)
            /\ RatIs(st.confidenceInterval[2], v)
            /\ RatIs(st.stdDev.squared, 0) /\ RatIs(st.variance, 0)
            /\ RatIs(st.skewness.m3, 0) /\ st.skewness.sd2.den > 0
            /\ RatIs(st.kurtosis, 0)
            /\ Len(stat.values) = 0 => RatIs(st.probNegative, 0)

\* the statistics of a one-element array with a non-zero element
C13_Witness ==
    /\ stat.fn = "computeStatistics"
    /\ stat.done
    /\ Len(stat.values) = 1
    /\ stat.values[1] # 0
    /\ stat.out.stats.count = 1

\* C16: the value shown in the row P(X < threshold) of an output is the
\* fraction of the output's values that are strictly below
\* config.probabilityThreshold.
C16_ProbabilityBelowThreshold ==
    (stat.fn = "computeStatistics" /\ stat.done /\ Len(stat.values) > 0) =>
        LET row == stat.out.row
            n == Len(stat.values)
            below == Cardinality({i \in 1..n :
                         stat.values[i] < stat.arg.probabilityThreshold})
        IN  /\ row.threshold = stat.arg.probabilityThreshold
            /\ row.value.den > 0
            /\ row.value.num * n = below * row.value.den

\* C14: computeSensitivity returns the empty list for fewer than 3 output
\* values or no inputs; otherwise one entry per input, each inputId once,
\* in non-increasing order of the absolute coefficient, entries of equal
\* absolute coefficient in their input order.
C14_SensitivityOnePerInputOrdered ==
    (stat.fn = "computeSensitivity" /\ stat.done) =>
        LET out == stat.out
            ids == stat.arg.inputIds
            pos(id) == CHOOSE j \in 1..Len(ids) : ids[j] = id
        IN  IF Len(stat.values) < 3 \/ Len(ids) = 0 THEN out = <<>>
            ELSE /\ Len(out) = Len(ids)
                 /\ \A j \in 1..Len(ids) :
                        Cardinality({i \in 1..Len(out) :
                                        out[i].inputId = ids[j]}) = 1
                 /\ \A a, b \in 1..Len(out) :
                        (a < b /\ ~out[a].coefficient.nan
                               /\ ~out[b].coefficient.nan) =>
                            /\ CompareAbs(out[a], out[b]) # "pos"
                            /\ CompareAbs(out[a], out[b]) = "zero"
                                  => pos(out[a].inputId) < pos(out[b].inputId)

\* the type tags sampleDistribution has a case for
KnownTypes ==
    {"normal", "uniform", "triangular", "pert", "lognormal", "discrete"}

\* run r was started with an input of an unknown type and passed the
\* precondition checks
Unsupported(r) ==
    /\ \E j \in 1..Len(runs[r].inputs) : runs[r].inputs[j].type \notin KnownTypes
    /\ Len(runs[r].outputs) > 0

\* C15: a run with an input of an unknown type never completes the round
\* trip of an iteration and records no sample row and no output value; once
\* it samples (it enters its first iteration), sampleDistribution throws
\* and the run rejects; and when it has settled after saving the formulas,
\* the restore was attempted and the formulas are in its input cells.
C15_UnknownTypeFailsFirstIteration ==
    \A r \in RunIds :
        LET rn == runs[r]
        IN  Unsupported(r) =>
                /\ rn.pc # "iterSync"
                /\ rn.iter = 0
                /\ rn.inputSamples = <<>>
                /\ \A k \in 1..Len(rn.outputs) : rn.outputValues[k] = <<>>
                /\ rn.sampled =>
                       /\ rn.thrown = "Sampling"
                       /\ Terminal(rn.pc) =>
                              (rn.pc = "rejected"
                               /\ rn.error \in {"Sampling", "RestoreSync"})
                /\ (Terminal(rn.pc) /\ rn.saved) =>
                       /\ rn.restoreAttempted
                       /\ \A j \in 1..Len(rn.inputs) :
                              cells[rn.inputs[j].cellAddress] = Formula

\* a run with an input of an unknown type rejected with the sampling error
\* after its restore round trip
C15_Witness ==
    \E r \in RunIds :
        /\ Unsupported(r)
        /\ runs[r].sampled
        /\ runs[r].pc = "rejected"
        /\ runs[r].error = "Sampling"
        /\ runs[r].restoreOk

\* the cells that hold an MC function of the given kind
CellsHolding(kind) == {a \in SheetCells : sheet[a].kind = kind}

\* C17: getInputs() and getOutputs() return exactly the MC distribution
\* and output functions the cells hold now, one entry per such cell: every
\* entry is the function of the cell it names, and every such cell has its
\* own entry.
C17_RegistryReflectsWorkbook ==
    /\ Len(regInputs) = Cardinality(CellsHolding("dist"))
    /\ \A i \in 1..Len(regInputs) :
           /\ regInputs[i].cellAddress \in CellsHolding("dist")
           /\ regInputs[i].type = sheet[regInputs[i].cellAddress].type
    /\ \A a \in CellsHolding("dist") :
           \E i \in 1..Len(regInputs) : regInputs[i].cellAddress = a
    /\ Len(regOutputs) = Cardinality(CellsHolding("output"))
    /\ \A i \in 1..Len(regOutputs) :
           regOutputs[i].cellAddress \in CellsHolding("output")
    /\ \A a \in CellsHolding("output") :
           \E i \in 1..Len(regOutputs) : regOutputs[i].cellAddress = a

\* no runSimulation call is in progress
Idle == \A r \in RunIds : Terminal(runs[r].pc)

\* C18: whenever no runSimulation call is in progress, isSimulating() is
\* false, and no evaluation of an MC distribution function made while none
\* is in progress draws a sample: it returns the static value.
C18_NotSimulatingWhenIdle ==
    /\ [](Idle => ~simulating)
    /\ [][(Idle /\ Idle') => (rng' = rng /\ evals' = evals)]_vars

\* a run that had set isSimulating was rejected by an evaluator error, no
\* run is in progress and isSimulating() is false
C18_Witness ==
    /\ Idle
    /\ ~simulating
    /\ \E r \in RunIds :
           /\ runs[r].setSim
           /\ runs[r].pc = "rejected"
           /\ runs[r].error \in {"LoadSync", "IterSync", "RestoreSync"}

\* C19: MC.SIMID returns the iteration number setCurrentIteration has set
\* while a run is in progress and simulating, and 0 when no run is in
\* progress.
C19_SimIdIsCurrentIteration ==
    /\ (~Idle /\ simulating /\ currentIteration > 0) =>
           mcSimId = currentIteration
    /\ Idle => mcSimId = 0

\* C20: registry operations called while a run is in flight do not change
\* the run: every sample row has one value per input that was registered
\* when the run started, in registration order, every input has had its
\* formula saved, and the run keeps one list of values per output that was
\* registered then, one value per completed iteration.
C20_RunKeepsItsSnapshot ==
    \A r \in RunIds :
        LET rn == runs[r]
        IN  /\ \A i \in 1..Len(rn.inputSamples) :
                   /\ Len(rn.inputSamples[i]) = Len(rn.inputs)
                   /\ \A j \in 1..Len(rn.inputs) :
                          rn.inputSamples[i][j].k = rn.inputs[j].type
            /\ rn.saved => Len(rn.originalFormulas) = Len(rn.inputs)
            /\ DOMAIN rn.outputValues = 1..Len(rn.outputs)
            /\ \A k \in 1..Len(rn.outputs) :
                   Len(rn.outputValues[k]) = rn.iter

\* a run resolved with sample rows for the inputs of its start although the
\* registry holds other inputs and other outputs now
C20_Witness ==
    \E r \in RunIds :
        /\ runs[r].pc = "resolved"
        /\ Len(runs[r].inputSamples) = MaxIter
        /\ runs[r].inputs # regInputs
        /\ runs[r].outputs # regOutputs

\* C21: at the first draw of a run the random source is in seeded mode
\* exactly when config.seed > 0, and the Box-Muller spare buffer is empty.
C21_FirstDrawModeAndEmptySpare ==
    \A r \in RunIds :
        (runs[r].sampled /\ runs[r].inputs[1].type \in KnownTypes) =>
            /\ runs[r].firstRng.useSeededRng = (runs[r].config.seed > 0)
            /\ ~runs[r].firstRng.hasSpare

\* C22: a value of an output that is not a number (a string, a boolean, an
\* empty cell, an error value) is recorded as 0, and exactly one value is
\* appended for it.
C22_NonNumbersRecordedAsZero ==
    (stat.fn = "readOutput" /\ stat.done) =>
        /\ Len(stat.out) = 1
        /\ stat.values[1].t # "number" => stat.out[1] = 0
        /\ stat.values[1].t = "number" => stat.out[1] = stat.values[1].n

\* C23: every element of arr gets the average of the places, counted from
\* 1, that the elements equal to it have in ascending order; ranking a
\* permuted array gives the ranks permuted the same way; and the ranks sum
\* to n (n + 1) / 2.  (The ranks of the model are doubled.)
C23_RanksAverageTies ==
    (stat.fn = "ranks" /\ stat.done) =>
        LET arr == stat.values
            n == Len(arr)
            less(k) == Cardinality({m \in 1..n : arr[m] < arr[k]})
            same(k) == Cardinality({m \in 1..n : arr[m] = arr[k]})
        IN  /\ DOMAIN stat.out = 1..n
            /\ \A k \in 1..n :
                   same(k) * stat.out[k]
                       = 2 * SumSeq([p \in 1..same(k) |-> less(k) + p], same(k))
            /\ \A f \in Orders(n) :
                   ranks([k \in 1..n |-> arr[f[k]]])
                       = [k \in 1..n |-> stat.out[f[k]]]
            /\ SumSeq(stat.out, n) = n * (n + 1)

\* an array with two equal values and a third one has been ranked
C23_Witness ==
    /\ stat.fn = "ranks"
    /\ stat.done
    /\ Len(stat.values) = 3
    /\ stat.values[1] = stat.values[3]
    /\ stat.values[2] < stat.values[1]
    /\ stat.out = <<5, 2, 5>>

\* C24: the in-loop updates of a call are those after the completed
\* iterations whose index is a multiple of 10 or iterations - 1, one each,
\* with increasing currentIteration; a call that resolved has emitted
\* exactly one final update, after them, and a call that has not resolved
\* none; no "running" update follows a "cancelled" or "completed" one.
C24_ProgressCadence ==
    stat.fn = "progress" =>
        LET ups == stat.values
            c == stat.arg
            inLoop == {i \in 1..Len(ups) : ups[i].at = "loop"}
            final == {i \in 1..Len(ups) : ups[i].at = "final"}
        IN  /\ {ups[i].currentIteration : i \in inLoop}
                   = {k + 1 : k \in {k \in 0..(c.iter - 1) :
                                        k % 10 = 0 \/ k = c.iterations - 1}}
            /\ \A i, j \in inLoop :
                   i < j => ups[i].currentIteration < ups[j].currentIteration
            /\ final = IF c.pc = "resolved" THEN {Len(ups)} ELSE {}
            /\ \A i, j \in 1..Len(ups) :
                   (i < j /\ ups[i].status \in {"cancelled", "completed"})
                       => ups[j].status # "running"

\* a call of MaxLoop iterations resolved with the updates after its
\* iterations 0, 10 and MaxLoop - 1 and the final one
C24_Witness ==
    /\ stat.fn = "progress"
    /\ stat.arg.pc = "resolved"
    /\ stat.arg.iter = MaxLoop
    /\ Len(stat.values) = 4
    /\ stat.values[2].currentIteration = 11
    /\ stat.values[4].at = "final"

\* C25: for n values computeHistogram without a bins hint and the mode
\* estimate use the same number of bins, ceil(1 + 3.322 log10(n)) clamped
\* to [10, 200].
C25_SameBinCount ==
    (stat.fn = "bins" /\ stat.done) =>
        /\ stat.out.histogram = stat.out.mode
        /\ stat.out.histogram = Max(10, Min(200, CeilSturges(stat.arg)))

\* base + sgn * sqrt(q) is a number that lies in [lo, hi]
RootWithin(s, lo, hi) ==
    /\ s.q.num >= 0
    /\ IF s.sgn = 1
       THEN s.base >= lo /\ s.q.num <= (hi - s.base) * (hi - s.base) * s.q.den
       ELSE s.base <= hi /\ s.q.num <= (s.base - lo) * (s.base - lo) * s.q.den

\* a fraction that is a number and lies in [lo, hi]
RatWithin(r, lo, hi) ==
    /\ ~r.nan
    /\ lo * r.v.den <= r.v.num
    /\ r.v.num <= hi * r.v.den

C27_SamplesAndOutputsAligned ==
    \A r \in RunIds :
        runs[r].pc = "resolved" =>
            LET rn == runs[r]
                n == Len(rn.inputSamples)
            IN  \A k \in 1..Len(rn.outputs) :
                    /\ Len(rn.outputValues[k]) = n
                    /\ computeStatistics([i \in 1..Len(rn.outputValues[k]) |-> 0],
                                         90).count = n
                    /\ \A i \in 1..n, j \in 1..Len(rn.inputs) :
                           rn.outputValues[k][i][rn.inputs[j].cellAddress]
                               = rn.inputSamples[i][j]

\* a run resolved after a Stop with fewer rows than config.iterations while
\* another call was in flight
C27_Witness ==
    \E r \in RunIds :
        /\ runs[r].pc = "resolved"
        /\ runs[r].overlapped
        /\ Len(runs[r].inputSamples) = 1
        /\ runs[r].config.iterations = MaxIter
        /\ Len(runs[r].outputs) > 0

\* C28: the final progress update of a run agrees with its data: with
\* status "completed" every output series has config.iterations values, with
\* status "cancelled" the run completed fewer than config.iterations
\* iterations, whenever Stop and the next Run are clicked.
C28_FinalStatusAgreesWithData ==
    \A r \in RunIds :
        LET rn == runs[r]
        IN  rn.finalEmitted =>
                /\ rn.progress.status = "completed" =>
                       \A k \in 1..Len(rn.outputs) :
                           Len(rn.outputValues[k]) = rn.config.iterations
                /\ rn.progress.status = "cancelled" =>
                       rn.iter < rn.config.iterations

\* C29: isSimulating() is true whenever some run is between the start of
\* its first iteration and the completion of its formula restore, also when
\* another runSimulation call terminates meanwhile.
C29_SimulatingWhileAnyRunIterates ==
    (\E r \in RunIds :
        \/ runs[r].pc = "iterSync"
        \/ runs[r].pc = "restoreSync" /\ runs[r].sampled)
        => simulating

\* a <= b and a = b for fractions with positive denominators
RatLeq(a, b) == a.num * b.den <= b.num * a.den
RatEq(a, b) == a.num * b.den = b.num * a.den

C10_HistogramCountsSumToN ==
    (hist.done /\ Len(hist.values) > 0) =>
        /\ SumCounts(hist.bins, Len(hist.bins)) = Len(hist.values)
        /\ (\A j \in 1..Len(hist.values) : hist.values[j] = hist.values[1]) =>
               (Len(hist.bins) = 1 /\ hist.bins[1].count = Len(hist.values))

\* the default number of bins over an array that is not constant: its
\* maximum falls on the upper edge of the last bin
C10_Witness ==
    /\ hist.done
    /\ hist.numBins = 0
    /\ Len(hist.values) > 1
    /\ hist.values[1] # hist.values[2]
    /\ Len(hist.bins) = DefaultBins(Len(hist.values))
    /\ hist.bins[Len(hist.bins)].count > 0

====
